---- MODULE Spec2Model ----
(***************************************************************************)
(* Model of the adaptive edge steganography pipeline:                      *)
(*   EdgeDetection.get_edge_pixels          (src/edge_detection.py)        *)
(*   EdgeClustering.cluster_edge_pixels,                                   *)
(*   EdgeClustering.get_optimized_edge_pixels (src/edge_clustering.py)     *)
(*   SteganographyEdgeAdaptive.*            (src/stegano_edge_adaptive.py) *)
(*                                                                         *)
(* Arithmetic the code performs in floating point (square roots, standard  *)
(* scores, variances, percentiles) is modelled exactly, with every         *)
(* comparison cross-multiplied into integers.                              *)
(***************************************************************************)
EXTENDS Integers, Sequences, FiniteSets

(***************************************************************************)
(* Bounds of the model.                                                    *)
(***************************************************************************)
Width == 6
Height == 5
Levels == 4
MaxMsgLen == 1
SmallPixels == 12
LargeSpread == 10
SmallLen == 4
MaxBits == 3

(***************************************************************************)
(* Program constants.                                                      *)
(***************************************************************************)
SampleBound == 30
HeaderLen == 24
MaxMessageLength == 65535

(***************************************************************************)
(* Input sets.                                                             *)
(***************************************************************************)
Thresholds == {0, 50}
EpsValues == {1, 2}
MinSamplesValues == {2, 3}
\* 200 is a percentile outside 0..100 that still fits the 8-bit header field
Percentiles == {0, 90, 200}
Chars == {65, 255}
\* eps / min_samples offered to the second capacity query; 0 and 1 are the
\* values the parameter validation rejects
QueryEps == {0, 3} \cup EpsValues
QueryMinSamples == {1, 4} \cup MinSamplesValues
\* numpy's float -> uint8 cast of NaN is undefined; the value it yields is
\* fixed by the build and unknown (Unset) until a cast happens
NanCastValues == {0, 255}
Unset == -1

Xs == 0 .. (Width - 1)
Ys == 0 .. (Height - 1)
Coords == Xs \X Ys

(***************************************************************************)
(* Rasters: RGB images held in a file.  The family of input rasters is     *)
(* gray ramps  v(x,y) = (a*x + b*y + c*x*y) mod Levels.                    *)
(***************************************************************************)
Ramp(a, b, c) ==
    [p \in Coords |->
        LET v == (a * p[1] + b * p[2] + c * p[1] * p[2]) % Levels
        IN  <<v, v, v>>]

Messages == UNION {[1 .. n -> Chars] : n \in 0 .. MaxMsgLen}

(***************************************************************************)
(* Generic helpers.                                                        *)
(***************************************************************************)
Max(a, b) == IF a >= b THEN a ELSE b
Min(a, b) == IF a <= b THEN a ELSE b

RECURSIVE SumTo(_, _)
SumTo(s, n) == IF n = 0 THEN 0 ELSE s[n] + SumTo(s, n - 1)

RECURSIVE SumSqTo(_, _)
SumSqTo(s, n) == IF n = 0 THEN 0 ELSE s[n] * s[n] + SumSqTo(s, n - 1)

SumSeq(s) == SumTo(s, Len(s))
SumSq(s) == SumSqTo(s, Len(s))

RECURSIVE Gcd(_, _)
Gcd(a, b) == IF b = 0 THEN a ELSE Gcd(b, a % b)

\* the elements of s that are in keep, in the order of s
RECURSIVE FilterFrom(_, _, _)
FilterFrom(s, keep, i) ==
    IF i > Len(s) THEN <<>>
    ELSE IF s[i] \in keep THEN <<s[i]>> \o FilterFrom(s, keep, i + 1)
         ELSE FilterFrom(s, keep, i + 1)

Filter(s, keep) == FilterFrom(s, keep, 1)

Range(s) == {s[i] : i \in DOMAIN s}

Prefix(s, n) == SubSeq(s, 1, Min(n, Len(s)))

(***************************************************************************)
(* Image.convert('L'): ITU-R 601-2 luma, L = (19595 R + 38470 G + 7471 B   *)
(* + 0x8000) >> 16.                                                        *)
(***************************************************************************)
Gray(px) == (19595 * px[1] + 38470 * px[2] + 7471 * px[3] + 32768) \div 65536

GrayAt(img, x, y) == Gray(img[<<x, y>>])

(***************************************************************************)
(* np.array(img.convert('L')): the grayscale array, stored row-major;      *)
(* cell (x, y) is entry Index(x, y).                                       *)
(***************************************************************************)
\* row-major enumeration of the raster: index i -> (x, y)
ScanOrder == [i \in 1 .. (Width * Height) |-> <<(i - 1) % Width, (i - 1) \div Width>>]

Index(x, y) == y * Width + x + 1

GrayArray(img) == [i \in 1 .. (Width * Height) |-> Gray(img[ScanOrder[i]])] \o <<>>

(***************************************************************************)
(* EdgeDetection.apply_sobel: squared gradient magnitude of every cell;    *)
(* zero on the border, where the loops do not run.                         *)
(***************************************************************************)
SobelX(arr, x, y) ==
      (arr[Index(x + 1, y - 1)] - arr[Index(x - 1, y - 1)])
    + 2 * (arr[Index(x + 1, y)] - arr[Index(x - 1, y)])
    + (arr[Index(x + 1, y + 1)] - arr[Index(x - 1, y + 1)])

SobelY(arr, x, y) ==
      (arr[Index(x - 1, y + 1)] - arr[Index(x - 1, y - 1)])
    + 2 * (arr[Index(x, y + 1)] - arr[Index(x, y - 1)])
    + (arr[Index(x + 1, y + 1)] - arr[Index(x + 1, y - 1)])

apply_sobel(arr) ==
    [i \in 1 .. (Width * Height) |->
        LET x == ScanOrder[i][1]
            y == ScanOrder[i][2]
        IN  IF x >= 1 /\ x <= Width - 2 /\ y >= 1 /\ y <= Height - 2
            THEN LET gradient_x == SobelX(arr, x, y)
                     gradient_y == SobelY(arr, x, y)
                 IN  gradient_x * gradient_x + gradient_y * gradient_y
            ELSE 0] \o <<>>

MaxOf(S) == CHOOSE m \in S : \A n \in S : n <= m

(***************************************************************************)
(* EdgeDetection.get_edge_pixels: normalise by the field maximum, cast to  *)
(* uint8 (truncation), keep the pixels whose value exceeds the threshold,  *)
(* in row-major order.  trunc(255*sqrt(m/mx)) > t  iff                     *)
(* 65025*m >= (t+1)^2 * mx.  With mx = 0 every quotient is NaN and the     *)
(* cast yields nan_cast.                                                   *)
(***************************************************************************)
\* <<m, mx>> for which sqrt(m) / sqrt(mx) * 255 in double arithmetic falls
\* just below the exact integer value (all cases with gradient components
\* up to 16)
FloatBelow ==
    {<<13, 325>>, <<52, 325>>, <<208, 325>>, <<17, 425>>, <<68, 425>>, <<272, 425>>,
     <<18, 450>>, <<72, 450>>, <<288, 450>>, <<338, 450>>}

IsEdge(mag2, mx, threshold, nan_cast) ==
    IF mx = 0 THEN nan_cast > threshold
    ELSE LET least == IF <<mag2, mx>> \in FloatBelow THEN threshold + 2 ELSE threshold + 1
         IN  threshold < 255 /\ (threshold < 0 \/ 65025 * mag2 >= least * least * mx)

\* lines 77-86: the cells of the magnitude field above the threshold
ScanEdges(edge_magnitude, mx, threshold, nan_cast) ==
    Filter(ScanOrder, {ScanOrder[i] : i \in {k \in DOMAIN ScanOrder :
                                          IsEdge(edge_magnitude[k], mx, threshold, nan_cast)}})

\* line 77: edge_magnitude.max() is taken once, over the whole field
NormaliseAndScan(edge_magnitude, threshold, nan_cast) ==
    ScanEdges(edge_magnitude, MaxOf(Range(edge_magnitude)), threshold, nan_cast)

get_edge_pixels(img, threshold, nan_cast) ==
    NormaliseAndScan(apply_sobel(GrayArray(img)), threshold, nan_cast)

(***************************************************************************)
(* get_edge_pixels on a raster of w columns and h rows with w < 3 or       *)
(* h < 3: the loops of apply_sobel have empty ranges, the magnitude field  *)
(* stays zero whatever the pixels are, its maximum is zero and every       *)
(* quotient is NaN.                                                        *)
(***************************************************************************)
Thin(shape) == shape[1] < 3 \/ shape[2] < 3

ThinScan(w, h) == [i \in 1 .. (w * h) |-> <<(i - 1) % w, (i - 1) \div w>>]

ThinEdges(w, h, threshold, nan_cast) ==
    IF IsEdge(0, 0, threshold, nan_cast) THEN ThinScan(w, h) ELSE <<>>

\* line 88: get_edge_pixels returns success with the list
EdgeResult(edge_coords) == [ok |-> TRUE, err |-> "", coords |-> edge_coords]

(***************************************************************************)
(* Lexicographic (x, y) order of Python tuples, and list.sort() on a list  *)
(* of distinct coordinates.                                                *)
(***************************************************************************)
CoordLess(p, q) == p[1] < q[1] \/ (p[1] = q[1] /\ p[2] < q[2])

\* the raster's coordinates in ascending CoordLess order: index i -> (x, y)
LexOrder == [i \in 1 .. (Width * Height) |-> <<(i - 1) \div Height, (i - 1) % Height>>]

SortCoords(s) == Filter(LexOrder, Range(s))

(***************************************************************************)
(* StandardScaler over the feature columns (x, y, gray): the population    *)
(* variance of a column is VarNum / n^2; a zero variance is replaced by 1. *)
(* ScaleVar returns the variance as a reduced fraction <<num, den>>.       *)
(***************************************************************************)
ScaleVar(col) ==
    LET n == Len(col)
        v == n * SumSq(col) - SumSeq(col) * SumSeq(col)
        g == Gcd(v, n * n)
    IN  IF v = 0 THEN <<1, 1>> ELSE <<v \div g, (n * n) \div g>>

Features(img, edge_coords) ==
    [i \in DOMAIN edge_coords |->
        <<edge_coords[i][1], edge_coords[i][2], GrayAt(img, edge_coords[i][1], edge_coords[i][2])>>]

Column(feats, k) == [i \in DOMAIN feats |-> feats[i][k]] \o <<>>

(***************************************************************************)
(* Euclidean distance of two standardised feature vectors is at most eps:  *)
(* sum_k d_k^2 * den_k / num_k <= eps^2.                                   *)
(***************************************************************************)
WithinEps(f, g, vx, vy, vg, eps) ==
    LET dx == (f[1] - g[1]) * (f[1] - g[1]) * vx[2]
        dy == (f[2] - g[2]) * (f[2] - g[2]) * vy[2]
        dg == (f[3] - g[3]) * (f[3] - g[3]) * vg[2]
    IN  /\ dx <= eps * eps * vx[1]
        /\ dy <= eps * eps * vy[1]
        /\ dg <= eps * eps * vg[1]
        /\ dx * vy[1] * vg[1] + dy * vx[1] * vg[1] + dg * vx[1] * vy[1]
              <= eps * eps * vx[1] * vy[1] * vg[1]

(***************************************************************************)
(* DBSCAN(eps, min_samples).fit_predict: a point is a core point when its  *)
(* eps-neighbourhood (itself included) has at least min_samples points; it *)
(* is labelled -1 (noise) when it is neither core nor within eps of a core *)
(* point.  NoiseIndices is the set of indices labelled -1.                 *)
(***************************************************************************)
Neighbours(feats, eps) ==
    LET vx == ScaleVar(Column(feats, 1))
        vy == ScaleVar(Column(feats, 2))
        vg == ScaleVar(Column(feats, 3))
    IN  [i \in DOMAIN feats |->
            {j : j \in {k \in DOMAIN feats : WithinEps(feats[i], feats[k], vx, vy, vg, eps)}}] \o <<>>

CorePoints(nbr, min_samples) ==
    {i : i \in {k \in DOMAIN nbr : Cardinality(nbr[k]) >= min_samples}}

\* a faulty variant of Unreached: every point that is not a core point is noise
UnreachedNonCore(nbr, core) ==
    {i : i \in {k \in DOMAIN nbr : k \notin core}}

\* the points that are neither core nor within eps of a core point
Unreached(nbr, core) ==
    {i : i \in {k \in DOMAIN nbr : k \notin core /\ nbr[k] \cap core = {}}}

NoiseOf(nbr, min_samples) == Unreached(nbr, CorePoints(nbr, min_samples))

NoiseIndices(feats, eps, min_samples) == NoiseOf(Neighbours(feats, eps), min_samples)

(***************************************************************************)
(* EdgeClustering.cluster_edge_pixels                                      *)
(***************************************************************************)
Failure(kind) == [ok |-> FALSE, err |-> kind, coords |-> <<>>]

ClusterFailure(kind) ==
    [ok |-> FALSE, err |-> kind, clustered_coords |-> <<>>, noise_coords |-> <<>>,
     all_coords |-> <<>>, labels |-> <<>>]

\* the labels of fit_predict: -1 for noise; 0 stands for every cluster number
Labels(edge_coords, noise) ==
    [i \in DOMAIN edge_coords |-> IF i \in noise THEN -1 ELSE 0] \o <<>>

\* a faulty variant of SplitByLabel: the two lists are left in scan order
SplitByLabelUnsorted(edge_coords, noise) ==
    [ok |-> TRUE, err |-> "",
     clustered_coords |->
         Filter(edge_coords, {edge_coords[i] : i \in (DOMAIN edge_coords) \ noise}),
     noise_coords |->
         Filter(edge_coords, {edge_coords[i] : i \in noise}),
     all_coords |-> edge_coords,
     labels |-> Labels(edge_coords, noise)]

\* lines 73-108: split the coordinates by label, sort both lists
SplitByLabel(edge_coords, noise) ==
    [ok |-> TRUE, err |-> "",
     clustered_coords |->
         SortCoords(Filter(edge_coords, {edge_coords[i] : i \in (DOMAIN edge_coords) \ noise})),
     noise_coords |->
         SortCoords(Filter(edge_coords, {edge_coords[i] : i \in noise})),
     all_coords |-> edge_coords,
     labels |-> Labels(edge_coords, noise)]

\* lines 41-85: the body of cluster_edge_pixels once edge_coords is known
ClusterCoords(img, edge_coords, eps, min_samples) ==
    IF Len(edge_coords) = 0 THEN ClusterFailure("no_edges")
    ELSE SplitByLabel(edge_coords,
                      NoiseIndices(Features(img, edge_coords) \o <<>>, eps, min_samples))

\* a faulty variant of cluster_edge_pixels: the parameter validation dropped
cluster_edge_pixels_unvalidated(img, threshold, eps, min_samples, nan_cast) ==
    ClusterCoords(img, get_edge_pixels(img, threshold, nan_cast), eps, min_samples)

cluster_edge_pixels(img, threshold, eps, min_samples, nan_cast) ==
    IF eps <= 0 \/ min_samples < 2 THEN ClusterFailure("invalid_parameters")
    ELSE IF threshold < 0 \/ threshold > 255 THEN ClusterFailure("invalid_parameters")
    ELSE ClusterCoords(img, get_edge_pixels(img, threshold, nan_cast), eps, min_samples)

\* a faulty variant of NonEmpty: an empty subset is returned as a success
NonEmptyUnchecked(coords) == [ok |-> TRUE, err |-> "", coords |-> coords]

\* lines 146-151: an empty subset is a failure
NonEmpty(coords) ==
    IF Len(coords) = 0 THEN Failure("no_capacity")
    ELSE [ok |-> TRUE, err |-> "", coords |-> coords]

\* lines 138-151: pick the noise or the clustered list of a clustering result
SelectSubset(cluster_result, use_isolated) ==
    IF ~cluster_result.ok THEN Failure(cluster_result.err)
    ELSE IF use_isolated THEN NonEmpty(cluster_result.noise_coords)
    ELSE NonEmpty(cluster_result.clustered_coords)

\* a faulty variant of get_optimized_edge_pixels: the two branches of use_isolated swapped
get_optimized_edge_pixels_swapped(img, threshold, eps, min_samples, use_isolated, nan_cast) ==
    SelectSubset(cluster_edge_pixels(img, threshold, eps, min_samples, nan_cast), ~use_isolated)

(***************************************************************************)
(* EdgeClustering.get_optimized_edge_pixels                                *)
(***************************************************************************)
get_optimized_edge_pixels(img, threshold, eps, min_samples, use_isolated, nan_cast) ==
    SelectSubset(cluster_edge_pixels(img, threshold, eps, min_samples, nan_cast), use_isolated)

(***************************************************************************)
(* SteganographyEdgeAdaptive.calculate_edge_strength: np.var of the 3x3    *)
(* grayscale neighbourhood clamped at the raster border.  The variance of  *)
(* n values is (n*sum(v^2) - sum(v)^2) / n^2; the result is returned       *)
(* scaled by VarScale, which every n^2 that can occur divides.             *)
(***************************************************************************)
VarScale == 16 * 81

\* np.var(region), scaled by VarScale
Var(vals, n) == (n * SumSq(vals) - SumSeq(vals) * SumSeq(vals)) * (VarScale \div (n * n))

\* gray_array[y_start:y_end, x_start:x_end], w columns wide, flattened
Region(img, x_start, y_start, w, h) ==
    [i \in 1 .. (w * h) |-> GrayAt(img, x_start + ((i - 1) % w), y_start + ((i - 1) \div w))] \o <<>>

calculate_edge_strength(img, x, y) ==
    LET y_start == Max(0, y - 1)
        y_end == Min(Height, y + 2)
        x_start == Max(0, x - 1)
        x_end == Min(Width, x + 2)
    IN  Var(Region(img, x_start, y_start, x_end - x_start, y_end - y_start),
            (x_end - x_start) * (y_end - y_start))

(***************************************************************************)
(* np.percentile(values, q), linear interpolation between the order        *)
(* statistics around the virtual index q/100 * (k-1); the result is        *)
(* returned scaled by 100.                                                 *)
(***************************************************************************)
OrderStat(vals, k) ==
    CHOOSE v \in Range(vals) :
        /\ Cardinality({i \in DOMAIN vals : vals[i] < v}) <= k
        /\ k < Cardinality({i \in DOMAIN vals : vals[i] <= v})

Percentile100(vals, q) ==
    LET k == Len(vals)
        lo == (q * (k - 1)) \div 100
        rem == q * (k - 1) - 100 * lo
        a == OrderStat(vals, lo)
        b == IF lo + 1 <= k - 1 THEN OrderStat(vals, lo + 1) ELSE a
    IN  100 * a + (b - a) * rem

(***************************************************************************)
(* SteganographyEdgeAdaptive.calculate_adaptive_threshold: percentile of   *)
(* the edge strengths of the first SampleBound coordinates.  The result    *)
(* carries the scale 100 * VarScale.                                       *)
(***************************************************************************)
\* a faulty variant of calculate_adaptive_threshold: the sample is the whole
\* sequence
calculate_adaptive_threshold_unbounded(img, edge_coords, percentile) ==
    LET variances == [i \in DOMAIN edge_coords |->
                        calculate_edge_strength(img, edge_coords[i][1], edge_coords[i][2])] \o <<>>
    IN  Percentile100(variances, percentile)

calculate_adaptive_threshold(img, edge_coords, percentile) ==
    LET sample_coords == Prefix(edge_coords, SampleBound)
        variances == [i \in DOMAIN sample_coords |->
                        calculate_edge_strength(img, sample_coords[i][1], sample_coords[i][2])] \o <<>>
    IN  Percentile100(variances, percentile)

\* strength >= threshold, with the two scales reconciled
HighVariance(strength, threshold) == 100 * strength >= threshold

(***************************************************************************)
(* format(v, '0<width>b'): binary digits, most significant first, padded   *)
(* with zeros to at least width digits; int(bits, 2) is its inverse.       *)
(***************************************************************************)
RECURSIVE Binary(_)
Binary(v) == IF v < 2 THEN <<v>> ELSE Binary(v \div 2) \o <<v % 2>>

\* a faulty variant of Format: the digits are not padded to the width
FormatUnpadded(v, width) == Binary(v)

RECURSIVE Format(_, _)
Format(v, width) ==
    IF Len(Binary(v)) >= width THEN Binary(v)
    ELSE <<0>> \o Format(v, width - 1)

RECURSIVE ParseBits(_)
ParseBits(bits) ==
    IF bits = <<>> THEN 0
    ELSE 2 * ParseBits(SubSeq(bits, 1, Len(bits) - 1)) + bits[Len(bits)]

RECURSIVE DataBits(_)
DataBits(message) ==
    IF message = <<>> THEN <<>>
    ELSE Format(Head(message), 8) \o DataBits(Tail(message))

(***************************************************************************)
(* SteganographyEdgeAdaptive.adaptive_embed_bits; bit_index counts from 0. *)
(* Returns <<new_value, bits_embedded, new_bit_index>>.                    *)
(***************************************************************************)
adaptive_embed_bits(pixel_value, message_bits, bit_index, strength, threshold) ==
    IF HighVariance(strength, threshold) THEN
        LET bits_to_embed == Min(2, Len(message_bits) - bit_index)
        IN  IF bits_to_embed = 2 THEN
                <<(pixel_value - (pixel_value % 4))
                      + 2 * message_bits[bit_index + 1] + message_bits[bit_index + 2],
                  2, bit_index + 2>>
            ELSE IF bits_to_embed = 1 THEN
                <<(pixel_value - (pixel_value % 2)) + message_bits[bit_index + 1], 1, bit_index + 1>>
            ELSE <<pixel_value, 0, bit_index>>
    ELSE
        IF bit_index < Len(message_bits) THEN
            <<(pixel_value - (pixel_value % 2)) + message_bits[bit_index + 1], 1, bit_index + 1>>
        ELSE <<pixel_value, 0, bit_index>>

(***************************************************************************)
(* SteganographyEdgeAdaptive.adaptive_extract_bits                         *)
(***************************************************************************)
adaptive_extract_bits(pixel_value, strength, threshold) ==
    IF HighVariance(strength, threshold) THEN Format(pixel_value % 4, 2)
    ELSE <<pixel_value % 2>>

(***************************************************************************)
(* get_channel_iterator: entry number pos (from 0) of the channel cursor.  *)
(***************************************************************************)
ChannelAt(edge_coords, pos) == <<edge_coords[(pos \div 3) + 1], (pos % 3) + 1>>

ChannelCount(edge_coords) == 3 * Len(edge_coords)

SetChannel(img, coord, c, value) ==
    [img EXCEPT ![coord] = [@ EXCEPT ![c] = value]]

(***************************************************************************)
(* The pipeline on a raster of w columns and h rows whose channel values   *)
(* span the whole range 0..255.  The functions are those above with the    *)
(* shape as a parameter; the comparisons of fractions, which above are     *)
(* cross-multiplied, are made by FracLeq, whose intermediate values stay   *)
(* within the operands.                                                    *)
(***************************************************************************)
\* p/q <= r/s for p, r >= 0 and q, s > 0, by comparing the integer parts and
\* then the inverted fractional parts
RECURSIVE FracLeq(_, _, _, _)
FracLeq(p, q, r, s) ==
    IF p \div q < r \div s THEN TRUE
    ELSE IF p \div q > r \div s THEN FALSE
    ELSE IF p % q = 0 THEN TRUE
    ELSE IF r % s = 0 THEN FALSE
    ELSE FracLeq(s, r % s, q, p % q)

IndexIn(w, x, y) == y * w + x + 1

\* the integers of S in ascending order
InOrder(S) ==
    [k \in 1 .. Cardinality(S) |->
        CHOOSE i \in S : Cardinality({j \in S : j <= i}) = k] \o <<>>

\* np.array(img.convert('L')) of a raster of w columns and h rows
GrayArrayOf(img, w, h) ==
    [i \in 1 .. (w * h) |-> Gray(img[<<(i - 1) % w, (i - 1) \div w>>])] \o <<>>

SobelXIn(arr, w, x, y) ==
      (arr[IndexIn(w, x + 1, y - 1)] - arr[IndexIn(w, x - 1, y - 1)])
    + 2 * (arr[IndexIn(w, x + 1, y)] - arr[IndexIn(w, x - 1, y)])
    + (arr[IndexIn(w, x + 1, y + 1)] - arr[IndexIn(w, x - 1, y + 1)])

SobelYIn(arr, w, x, y) ==
      (arr[IndexIn(w, x - 1, y + 1)] - arr[IndexIn(w, x - 1, y - 1)])
    + 2 * (arr[IndexIn(w, x, y + 1)] - arr[IndexIn(w, x, y - 1)])
    + (arr[IndexIn(w, x + 1, y + 1)] - arr[IndexIn(w, x + 1, y - 1)])

\* EdgeDetection.apply_sobel: squared magnitudes, zero on the border
apply_sobel_sized(arr, w, h) ==
    [i \in 1 .. (w * h) |->
        LET x == (i - 1) % w
            y == (i - 1) \div w
        IN  IF x >= 1 /\ x <= w - 2 /\ y >= 1 /\ y <= h - 2
            THEN LET gradient_x == SobelXIn(arr, w, x, y)
                     gradient_y == SobelYIn(arr, w, x, y)
                 IN  gradient_x * gradient_x + gradient_y * gradient_y
            ELSE 0] \o <<>>

\* trunc(255 * sqrt(mag2 / mx)) > threshold, as IsEdge decides it
IsEdgeExact(mag2, mx, threshold, nan_cast) ==
    IF mx = 0 THEN nan_cast > threshold
    ELSE LET least == IF <<mag2, mx>> \in FloatBelow THEN threshold + 2 ELSE threshold + 1
         IN  threshold < 255 /\ (threshold < 0 \/ FracLeq(least * least, 65025, mag2, mx))

\* lines 77-86 of get_edge_pixels
NormaliseAndScanSized(edge_magnitude, mx, w, threshold, nan_cast) ==
    InOrder({k \in DOMAIN edge_magnitude :
                  IsEdgeExact(edge_magnitude[k], mx, threshold, nan_cast)})

\* the list of cell numbers as coordinates, in the order of the list
CellCoords(cells, w) ==
    [i \in DOMAIN cells |-> <<(cells[i] - 1) % w, (cells[i] - 1) \div w>>] \o <<>>

get_edge_pixels_sized(img, w, h, threshold, nan_cast) ==
    \* a parameter, so that the field is computed once
    LET scan(edge_magnitude) ==
            CellCoords(NormaliseAndScanSized(edge_magnitude, MaxOf(Range(edge_magnitude)),
                                             w, threshold, nan_cast), w)
    IN  scan(apply_sobel_sized(GrayArrayOf(img, w, h), w, h))

\* list.sort() on the distinct coordinates S of a raster of h rows: by x, then by y
SortCoordsSized(S, h) ==
    LET keys == InOrder({c[1] * h + c[2] : c \in S})
    IN  [k \in DOMAIN keys |-> <<keys[k] \div h, keys[k] % h>>] \o <<>>

\* WithinEps with the sum of the three quotients compared by FracLeq
WithinEpsExact(f, g, vx, vy, vg, eps) ==
    LET dx == (f[1] - g[1]) * (f[1] - g[1]) * vx[2]
        dy == (f[2] - g[2]) * (f[2] - g[2]) * vy[2]
        dg == (f[3] - g[3]) * (f[3] - g[3]) * vg[2]
    IN  /\ dx <= eps * eps * vx[1]
        /\ dy <= eps * eps * vy[1]
        /\ dg <= eps * eps * vg[1]
        /\ FracLeq(dx * vy[1] + dy * vx[1], vx[1] * vy[1], eps * eps * vg[1] - dg, vg[1])

NeighboursExact(feats, eps) ==
    LET nbr(vx, vy, vg) ==
            [i \in DOMAIN feats |->
                {j : j \in {k \in DOMAIN feats :
                                WithinEpsExact(feats[i], feats[k], vx, vy, vg, eps)}}] \o <<>>
    IN  nbr(ScaleVar(Column(feats, 1)), ScaleVar(Column(feats, 2)), ScaleVar(Column(feats, 3)))

\* the core points reachable from the core points in S through core points
RECURSIVE CoreClosure(_, _, _)
CoreClosure(nbr, core, S) ==
    LET T == S \cup (UNION {nbr[i] : i \in S} \cap core)
    IN  IF T = S THEN S ELSE CoreClosure(nbr, core, T)

\* line 69: n_clusters, the number of labels other than -1; DBSCAN gives one
\* label to each set of core points connected through their neighbourhoods
RECURSIVE ClusterCount(_, _, _)
ClusterCount(nbr, core, remaining) ==
    IF remaining = {} THEN 0
    ELSE LET c == CHOOSE i \in remaining : TRUE
         IN  1 + ClusterCount(nbr, core, remaining \ CoreClosure(nbr, core, {c}))

\* lines 41-108 of cluster_edge_pixels, with n_clusters in the result
ClusterCoordsSized(img, w, h, edge_coords, eps, min_samples) ==
    IF Len(edge_coords) = 0 THEN [ClusterFailure("no_edges") EXCEPT !.ok = FALSE]
    ELSE LET split(nbr, noise) ==
                 [ok |-> TRUE, err |-> "",
                  clustered_coords |->
                      SortCoordsSized({edge_coords[i] : i \in (DOMAIN edge_coords) \ noise}, h),
                  noise_coords |-> SortCoordsSized({edge_coords[i] : i \in noise}, h),
                  all_coords |-> edge_coords,
                  labels |-> Labels(edge_coords, noise),
                  n_clusters |-> ClusterCount(nbr, CorePoints(nbr, min_samples),
                                              CorePoints(nbr, min_samples))]
             result(nbr) == split(nbr, NoiseOf(nbr, min_samples))
         IN  result(NeighboursExact(Features(img, edge_coords) \o <<>>, eps))

cluster_edge_pixels_sized(img, w, h, threshold, eps, min_samples, nan_cast) ==
    IF eps <= 0 \/ min_samples < 2 THEN ClusterFailure("invalid_parameters")
    ELSE IF threshold < 0 \/ threshold > 255 THEN ClusterFailure("invalid_parameters")
    ELSE ClusterCoordsSized(img, w, h, get_edge_pixels_sized(img, w, h, threshold, nan_cast),
                            eps, min_samples)

get_optimized_edge_pixels_sized(img, w, h, threshold, eps, min_samples, use_isolated, nan_cast) ==
    SelectSubset(cluster_edge_pixels_sized(img, w, h, threshold, eps, min_samples, nan_cast),
                 use_isolated)

calculate_edge_strength_sized(img, w, h, x, y) ==
    LET y_start == Max(0, y - 1)
        y_end == Min(h, y + 2)
        x_start == Max(0, x - 1)
        x_end == Min(w, x + 2)
    IN  Var(Region(img, x_start, y_start, x_end - x_start, y_end - y_start),
            (x_end - x_start) * (y_end - y_start))

calculate_adaptive_threshold_sized(img, w, h, coords, percentile) ==
    LET sample_coords == Prefix(coords, SampleBound)
        variances == [i \in DOMAIN sample_coords |->
                        calculate_edge_strength_sized(img, w, h, sample_coords[i][1],
                                                      sample_coords[i][2])] \o <<>>
    IN  Percentile100(variances, percentile)

(***************************************************************************)
(* SteganographyEdgeAdaptive.get_capacity                                  *)
(***************************************************************************)
\* int((high / sample_size) * total): the double product falls just below
\* the exact quotient for the listed arguments (all cases with total < 75)
EstimateHigh(high, sample_size, total) ==
    IF <<high, sample_size, total>> \in {<<15, 22, 22>>, <<13, 23, 23>>, <<15, 26, 26>>}
    THEN ((high * total) \div sample_size) - 1
    ELSE (high * total) \div sample_size

CapacityFailure(kind) ==
    [ok |-> FALSE, err |-> kind, edge_pixels |-> 0, high_variance_pixels |-> 0,
     max_bits |-> 0, max_chars |-> 0]

\* lines 459-467: the estimate from the pixel counts
CapacityRecord(total_pixels, estimated_high) ==
    LET estimated_low == total_pixels - estimated_high
        max_bits == (estimated_high * 4) + (estimated_low * 3)
    IN  [ok |-> TRUE, err |-> "", edge_pixels |-> total_pixels,
         high_variance_pixels |-> estimated_high,
         max_bits |-> max_bits, max_chars |-> (max_bits - HeaderLen) \div 8]

\* lines 444-454: the sampled pixels whose strength reaches the threshold
HighVarianceCount(img, edge_coords, sample_size, variance_threshold) ==
    Cardinality({i \in 1 .. sample_size :
        HighVariance(calculate_edge_strength(img, edge_coords[i][1], edge_coords[i][2]),
                     variance_threshold)})

\* lines 437-467: the body of get_capacity once edge_coords is known
CapacityOf(img, edge_coords, variance_percentile) ==
    LET sample_size == Min(SampleBound, Len(edge_coords))
        total_pixels == Len(edge_coords)
    IN  CapacityRecord(total_pixels,
            EstimateHigh(
                HighVarianceCount(img, edge_coords, sample_size,
                    calculate_adaptive_threshold(img, edge_coords, variance_percentile)),
                sample_size, total_pixels))

CapacityFrom(img, sel, variance_percentile) ==
    IF ~sel.ok THEN CapacityFailure(sel.err)
    ELSE IF variance_percentile < 0 \/ variance_percentile > 100 THEN CapacityFailure("exception")
    ELSE CapacityOf(img, sel.coords, variance_percentile)

get_capacity(img, threshold, eps, min_samples, use_isolated, variance_percentile, nan_cast) ==
    CapacityFrom(img,
                 get_optimized_edge_pixels(img, threshold, eps, min_samples, use_isolated, nan_cast),
                 variance_percentile)

(***************************************************************************)
(* State.                                                                  *)
(*   image, output      the raster files at image_path and output_path     *)
(*   message .. variance_percentile   the arguments of the calls           *)
(*   nan_cast           the build's NaN -> uint8 cast result               *)
(*   capacity, query    results of get_capacity                            *)
(*   edge_coords .. enc_result   locals and result of encode_message       *)
(*   enc_log            the (coordinate, channel, decision, bits) entries  *)
(*                      of the payload loop, in order                      *)
(*   dec_coords .. dec_result    locals and result of decode_message       *)
(*   sizes              len(edge_coords), high_variance_count and          *)
(*                      len(message) of a call followed by its sizes only  *)
(*   stages             the shape of the raster and the results of         *)
(*                      get_edge_pixels, cluster_edge_pixels and           *)
(*                      get_optimized_edge_pixels called one by one        *)
(*   unit               the arguments and the result of one function       *)
(*                      called on its own                                  *)
(***************************************************************************)
VARIABLES image, message, threshold, eps, min_samples, use_isolated, variance_percentile,
          nan_cast, pc, capacity, query,
          edge_coords, variance_threshold, encoded_img, chan_pos, bit_index, enc_result, enc_log,
          output, dec_coords, dec_header, dec_result, sizes, stages, unit

inputs == <<image, message, threshold, eps, min_samples, use_isolated, variance_percentile, sizes,
            stages, unit>>
enc_locals == <<edge_coords, variance_threshold, encoded_img, chan_pos, bit_index, enc_log>>
dec_locals == <<dec_coords, dec_header>>
vars == <<inputs, nan_cast, pc, capacity, query, enc_locals, enc_result, output, dec_locals, dec_result>>

\* the raster has no gradient anywhere: normalising it divides zero by zero
Flat(img) ==
    LET arr == [i \in 1 .. (Width * Height) |-> Gray(img[ScanOrder[i]])]
    IN  \A x \in 1 .. (Width - 2), y \in 1 .. (Height - 2) :
            SobelX(arr, x, y) = 0 /\ SobelY(arr, x, y) = 0

\* the cast results a call that runs edge detection on img may observe
CastChoices(img) ==
    IF nan_cast # Unset THEN {nan_cast}
    ELSE IF Flat(img) THEN NanCastValues
    ELSE {Unset}

NoFile == <<>>
Pending == [status |-> "pending", err |-> "", message |-> <<>>]
Succeeded(msg) == [status |-> "ok", err |-> "", message |-> msg]
Failed(kind) == [status |-> "failed", err |-> kind, message |-> <<>>]
NoCapacity == [ok |-> FALSE, err |-> "pending", edge_pixels |-> 0, high_variance_pixels |-> 0,
               max_bits |-> 0, max_chars |-> 0]
NoHeader == [length |-> -1, percentile |-> -1]
NoSizes == [total_pixels |-> 0, high_variance_count |-> 0, message_length |-> 0]
NotCalled == [ok |-> FALSE, err |-> "not_called"]
NoStages == [shape |-> <<Width, Height>>, edges |-> NotCalled, cluster |-> NotCalled,
             selection |-> NotCalled]
NoUnit == [call |-> "none"]

Init ==
    /\ \E a \in 1 .. Levels, b \in 1 .. Levels, c \in 0 .. 1 : image = Ramp(a, b, c)
    /\ message \in Messages
    /\ threshold \in Thresholds
    /\ eps \in EpsValues
    /\ min_samples \in MinSamplesValues
    /\ use_isolated \in BOOLEAN
    /\ variance_percentile \in Percentiles
    /\ nan_cast = Unset
    /\ pc = "capacity"
    /\ capacity = NoCapacity
    /\ query = [eps |-> 0, min_samples |-> 0, result |-> NoCapacity]
    /\ edge_coords = <<>>
    /\ variance_threshold = 0
    /\ encoded_img = NoFile
    /\ chan_pos = 0
    /\ bit_index = 0
    /\ enc_result = Pending
    /\ enc_log = <<>>
    /\ output = NoFile
    /\ dec_coords = <<>>
    /\ dec_header = NoHeader
    /\ dec_result = Pending
    /\ sizes = NoSizes
    /\ stages = NoStages
    /\ unit = NoUnit

(***************************************************************************)
(* get_capacity with the arguments of the session.                         *)
(***************************************************************************)
GetCapacity ==
    /\ pc = "capacity"
    /\ \E nc \in CastChoices(image) :
          /\ nan_cast' = nc
          /\ capacity' = get_capacity(image, threshold, eps, min_samples, use_isolated,
                                      variance_percentile, nc)
    /\ pc' = "enc_select"
    /\ UNCHANGED <<inputs, query, enc_locals, enc_result, output, dec_locals, dec_result>>

(***************************************************************************)
(* encode_message, lines 163-172: open the image, select the coordinates.  *)
(***************************************************************************)
EncSelect ==
    /\ pc = "enc_select"
    /\ \E nc \in CastChoices(image) :
          /\ nan_cast' = nc
          /\ \E sel \in {get_optimized_edge_pixels(image, threshold, eps, min_samples, use_isolated, nc)} :
                 IF ~sel.ok
                 THEN /\ enc_result' = Failed(sel.err)
                      /\ pc' = "query"
                      /\ UNCHANGED edge_coords
                 ELSE /\ edge_coords' = sel.coords
                      /\ pc' = "enc_prepare"
                      /\ UNCHANGED enc_result
    /\ UNCHANGED <<inputs, capacity, query, variance_threshold, encoded_img, chan_pos, bit_index,
                   enc_log, output, dec_locals, dec_result>>

HeaderBits(len, percentile) == Format(len, 16) \o Format(percentile, 8)

\* a faulty variant of CapacityShort: the pre-check counts two bits for every channel
CapacityShortOptimistic(total_channels, bits_needed) == 2 * total_channels < bits_needed

\* lines 193-194: the worst-case capacity pre-check, one bit per channel
CapacityShort(total_channels, bits_needed) == total_channels < bits_needed

\* a faulty variant of TooLong: the limit taken one too high
TooLongOffByOne(message_length) == message_length > MaxMessageLength + 1

\* line 176: the message does not fit the 16-bit length field
TooLong(message_length) == message_length > MaxMessageLength

(***************************************************************************)
(* encode_message, lines 174-198: length check, header and data bits,      *)
(* variance threshold, capacity pre-check, private copy of the image.      *)
(***************************************************************************)
EncPrepare ==
    /\ pc = "enc_prepare"
    /\ LET message_length == Len(message)
           data_bits == DataBits(message)
       IN  IF TooLong(message_length) THEN
               /\ enc_result' = Failed("message_too_long")
               /\ pc' = "query"
               /\ UNCHANGED <<variance_threshold, encoded_img>>
           ELSE IF variance_percentile < 0 \/ variance_percentile > 100 THEN
               \* format() or np.percentile raises; caught by the handler
               /\ enc_result' = Failed("exception")
               /\ pc' = "query"
               /\ UNCHANGED <<variance_threshold, encoded_img>>
           ELSE IF CapacityShort(ChannelCount(edge_coords),
                                 Len(HeaderBits(message_length, variance_percentile))
                                     + Len(data_bits)) THEN
               /\ enc_result' = Failed("capacity_exceeded")
               /\ pc' = "query"
               /\ variance_threshold' =
                      calculate_adaptive_threshold(image, edge_coords, variance_percentile)
               /\ UNCHANGED encoded_img
           ELSE
               /\ variance_threshold' =
                      calculate_adaptive_threshold(image, edge_coords, variance_percentile)
               /\ encoded_img' = image
               /\ pc' = "enc_header"
               /\ UNCHANGED enc_result
    /\ chan_pos' = 0
    /\ UNCHANGED <<inputs, nan_cast, capacity, query, edge_coords, bit_index, enc_log, output,
                   dec_locals, dec_result>>

(***************************************************************************)
(* encode_message, lines 210-217: the header loop, one LSB per channel.    *)
(***************************************************************************)
\* a faulty variant of WriteHeader: the mask clears the two low bits
RECURSIVE WriteHeaderWide(_, _, _, _)
WriteHeaderWide(img, coords, bits, pos) ==
    IF bits = <<>> \/ pos >= ChannelCount(coords) THEN img
    ELSE LET ch == ChannelAt(coords, pos)
             old == img[ch[1]][ch[2]]
         IN  WriteHeaderWide(SetChannel(img, ch[1], ch[2], (old - (old % 4)) + Head(bits)),
                             coords, Tail(bits), pos + 1)

RECURSIVE WriteHeader(_, _, _, _)
WriteHeader(img, coords, bits, pos) ==
    IF bits = <<>> \/ pos >= ChannelCount(coords) THEN img
    ELSE LET ch == ChannelAt(coords, pos)
             old == img[ch[1]][ch[2]]
         IN  WriteHeader(SetChannel(img, ch[1], ch[2], (old - (old % 2)) + Head(bits)),
                         coords, Tail(bits), pos + 1)

EncHeader ==
    /\ pc = "enc_header"
    /\ LET header_bits == HeaderBits(Len(message), variance_percentile)
       IN  /\ encoded_img' = WriteHeader(encoded_img, edge_coords, header_bits, chan_pos)
           /\ IF ChannelCount(edge_coords) < Len(header_bits)
              THEN /\ enc_result' = Failed("capacity_header")
                   /\ pc' = "query"
                   /\ chan_pos' = ChannelCount(edge_coords)
              ELSE /\ pc' = "enc_payload"
                   /\ chan_pos' = Len(header_bits)
                   /\ UNCHANGED enc_result
    /\ bit_index' = 0
    /\ UNCHANGED <<inputs, nan_cast, capacity, query, edge_coords, variance_threshold, enc_log, output,
                   dec_locals, dec_result>>

\* a faulty variant of EncPayload: the strength and the base value are read
\* from the copy being written instead of the input image
EncPayloadAliased ==
    /\ pc = "enc_payload"
    /\ bit_index < Len(DataBits(message))
    /\ IF chan_pos >= ChannelCount(edge_coords) THEN
           /\ enc_result' = Failed("capacity_data")
           /\ pc' = "query"
           /\ UNCHANGED <<encoded_img, chan_pos, bit_index, enc_log>>
       ELSE
           LET ch == ChannelAt(edge_coords, chan_pos)
               strength == calculate_edge_strength(encoded_img, ch[1][1], ch[1][2])
               original_channel_value == encoded_img[ch[1]][ch[2]]
               r == adaptive_embed_bits(original_channel_value, DataBits(message), bit_index,
                                        strength, variance_threshold)
           IN  /\ encoded_img' = IF r[2] > 0 THEN SetChannel(encoded_img, ch[1], ch[2], r[1])
                                 ELSE encoded_img
               /\ bit_index' = r[3]
               /\ chan_pos' = chan_pos + 1
               /\ enc_log' = Append(enc_log,
                      [coord |-> ch[1], channel |-> ch[2],
                       decision |-> IF HighVariance(strength, variance_threshold) THEN 2 ELSE 1,
                       bits |-> r[2]])
               /\ UNCHANGED <<enc_result, pc>>
    /\ UNCHANGED <<inputs, nan_cast, capacity, query, edge_coords, variance_threshold, output,
                   dec_locals, dec_result>>

(***************************************************************************)
(* encode_message, lines 221-252: one iteration of the payload loop.       *)
(***************************************************************************)
EncPayload ==
    /\ pc = "enc_payload"
    /\ bit_index < Len(DataBits(message))
    /\ IF chan_pos >= ChannelCount(edge_coords) THEN
           /\ enc_result' = Failed("capacity_data")
           /\ pc' = "query"
           /\ UNCHANGED <<encoded_img, chan_pos, bit_index, enc_log>>
       ELSE
           LET ch == ChannelAt(edge_coords, chan_pos)
               strength == calculate_edge_strength(image, ch[1][1], ch[1][2])
               original_channel_value == image[ch[1]][ch[2]]
               r == adaptive_embed_bits(original_channel_value, DataBits(message), bit_index,
                                        strength, variance_threshold)
           IN  /\ encoded_img' = IF r[2] > 0 THEN SetChannel(encoded_img, ch[1], ch[2], r[1])
                                 ELSE encoded_img
               /\ bit_index' = r[3]
               /\ chan_pos' = chan_pos + 1
               /\ enc_log' = Append(enc_log,
                      [coord |-> ch[1], channel |-> ch[2],
                       decision |-> IF HighVariance(strength, variance_threshold) THEN 2 ELSE 1,
                       bits |-> r[2]])
               /\ UNCHANGED <<enc_result, pc>>
    /\ UNCHANGED <<inputs, nan_cast, capacity, query, edge_coords, variance_threshold, output,
                   dec_locals, dec_result>>

\* a faulty variant of EncSave: the save sits inside the payload loop
EncSaveInLoop ==
    /\ pc = "enc_payload"
    /\ output' = encoded_img
    /\ enc_result' = Succeeded(<<>>)
    /\ pc' = "dec_header"
    /\ UNCHANGED <<inputs, nan_cast, capacity, query, enc_locals, dec_locals, dec_result>>

(***************************************************************************)
(* encode_message, lines 254-258: completeness check and save.             *)
(***************************************************************************)
EncSave ==
    /\ pc = "enc_payload"
    /\ ~(bit_index < Len(DataBits(message)))
    /\ output' = encoded_img
    /\ enc_result' = Succeeded(<<>>)
    /\ pc' = "dec_header"
    /\ UNCHANGED <<inputs, nan_cast, capacity, query, enc_locals, dec_locals, dec_result>>

\* a faulty variant of PercentileValid: every value of the 8-bit field is accepted
PercentileValidByte(percentile) == 0 <= percentile /\ percentile <= 255

\* line 320: the range the decoder accepts for the percentile of the header
PercentileValid(percentile) == 0 <= percentile /\ percentile <= 100

\* least-significant bits of the first n cursor entries
ReadHeaderBits(img, coords, n) ==
    [i \in 1 .. n |-> LET ch == ChannelAt(coords, i - 1) IN img[ch[1]][ch[2]] % 2]

(***************************************************************************)
(* decode_message, lines 281-324: open the stego image, select the         *)
(* coordinates from it, read and validate the 24-bit header.               *)
(***************************************************************************)
DecHeader ==
    /\ pc = "dec_header"
    /\ \E nc \in CastChoices(output) :
          /\ nan_cast' = nc
          /\ \E sel \in {get_optimized_edge_pixels(output, threshold, eps, min_samples, use_isolated, nc)} :
                 IF ~sel.ok THEN
                     /\ dec_result' = Failed(sel.err)
                     /\ pc' = "query"
                     /\ UNCHANGED <<dec_coords, dec_header>>
                 ELSE IF ChannelCount(sel.coords) < HeaderLen THEN
                     /\ dec_coords' = sel.coords
                     /\ dec_result' = Failed("insufficient_header")
                     /\ pc' = "query"
                     /\ UNCHANGED dec_header
                 ELSE
                     LET header_bits == ReadHeaderBits(output, sel.coords, HeaderLen)
                         message_length == ParseBits(SubSeq(header_bits, 1, 16))
                         percentile == ParseBits(SubSeq(header_bits, 17, HeaderLen))
                     IN  /\ dec_coords' = sel.coords
                         /\ dec_header' = [length |-> message_length, percentile |-> percentile]
                         /\ IF ~PercentileValid(percentile) THEN
                                /\ dec_result' = Failed("invalid_header")
                                /\ pc' = "query"
                            ELSE IF message_length = 0 THEN
                                /\ dec_result' = Succeeded(<<>>)
                                /\ pc' = "query"
                            ELSE
                                /\ pc' = "dec_payload"
                                /\ UNCHANGED dec_result
    /\ UNCHANGED <<inputs, capacity, query, enc_locals, enc_result, output>>

(***************************************************************************)
(* decode_message, lines 377-388: every bit the cursor yields after the    *)
(* header, 1 or 2 per channel.                                             *)
(***************************************************************************)
RECURSIVE ExtractStream(_, _, _, _)
ExtractStream(img, coords, vt, pos) ==
    IF pos >= ChannelCount(coords) THEN <<>>
    ELSE LET ch == ChannelAt(coords, pos)
             strength == calculate_edge_strength(img, ch[1][1], ch[1][2])
         IN  adaptive_extract_bits(img[ch[1]][ch[2]], strength, vt)
                 \o ExtractStream(img, coords, vt, pos + 1)

\* a faulty variant of StreamShort: the length check of line 390 dropped
StreamShortNever(stream_length, bits_to_extract) == FALSE

\* line 390: the stream holds fewer bits than the header announces
StreamShort(stream_length, bits_to_extract) == stream_length < bits_to_extract

\* lines 397-401: regroup into characters; a trailing group shorter than 8 is dropped
RECURSIVE RegroupBytes(_)
RegroupBytes(bits) ==
    IF Len(bits) < 8 THEN <<>>
    ELSE <<ParseBits(SubSeq(bits, 1, 8))>> \o RegroupBytes(SubSeq(bits, 9, Len(bits)))

(***************************************************************************)
(* decode_message, lines 327-403: threshold from the stego image and the   *)
(* decoded percentile, extraction, truncation, regrouping.                 *)
(***************************************************************************)
DecPayload ==
    /\ pc = "dec_payload"
    /\ LET vt == calculate_adaptive_threshold(output, dec_coords, dec_header.percentile)
           bits_to_extract == dec_header.length * 8
           all_data_bits_stream == ExtractStream(output, dec_coords, vt, HeaderLen)
       IN  IF StreamShort(Len(all_data_bits_stream), bits_to_extract)
           THEN dec_result' = Failed("insufficient_data")
           ELSE dec_result' = Succeeded(RegroupBytes(Prefix(all_data_bits_stream, bits_to_extract)))
    /\ pc' = "query"
    /\ UNCHANGED <<inputs, nan_cast, capacity, query, enc_locals, enc_result, output, dec_locals>>

(***************************************************************************)
(* get_capacity again, with eps or min_samples one step away from the      *)
(* session's.                                                              *)
(***************************************************************************)
OneStep(e, m) ==
    \/ (m = min_samples /\ (e = eps - 1 \/ e = eps + 1))
    \/ (e = eps /\ (m = min_samples - 1 \/ m = min_samples + 1))

Query ==
    /\ pc = "query"
    /\ \E e \in QueryEps, m \in QueryMinSamples, nc \in CastChoices(image) :
          /\ OneStep(e, m)
          /\ nan_cast' = nc
          /\ query' = [eps |-> e, min_samples |-> m,
                       result |-> get_capacity(image, threshold, e, m, use_isolated,
                                               variance_percentile, nc)]
    /\ pc' = "done"
    /\ UNCHANGED <<inputs, capacity, enc_locals, enc_result, output, dec_locals, dec_result>>

Next ==
    \/ GetCapacity
    \/ EncSelect
    \/ EncPrepare
    \/ EncHeader
    \/ EncPayload
    \/ EncSave
    \/ DecHeader
    \/ DecPayload
    \/ Query

Spec == Init /\ [][Next]_vars

(***************************************************************************)
(* get_capacity and the checks of encode_message followed by their sizes   *)
(* only: total_pixels = len(edge_coords) of the selection, the number of   *)
(* sampled pixels that reach the variance threshold, and len(message) of a *)
(* message of 8-bit characters.  This reaches selections and messages of   *)
(* the size at which the 16-bit length limit applies.  Above SmallPixels   *)
(* every sampled pixel reaches the threshold (variance_percentile = 0), so *)
(* that the quotient in EstimateHigh is exactly 1.                         *)
(***************************************************************************)
PixelCounts ==
    (1 .. SmallPixels) \cup {2 * MaxMessageLength + k : k \in 0 .. LargeSpread}
                      \cup {3 * MaxMessageLength}

LengthValues == (0 .. SmallLen) \cup {MaxMessageLength + k : k \in -1 .. 2}

HighCounts(n) == IF n <= SmallPixels THEN 1 .. Min(SampleBound, n) ELSE {Min(SampleBound, n)}

\* the checks of lines 175-195 have passed; the writing loops are not followed
Checked == [status |-> "checked", err |-> "", message |-> <<>>]

raster_state == <<image, message, threshold, eps, min_samples, use_isolated, variance_percentile,
                  nan_cast, query, enc_locals, output, dec_locals, dec_result, stages, unit>>

SizesInit ==
    /\ \E n \in PixelCounts, len \in LengthValues :
           \E high \in HighCounts(n) :
               sizes = [total_pixels |-> n, high_variance_count |-> high, message_length |-> len]
    /\ image = Ramp(Levels, Levels, 0)
    /\ message = <<>>
    /\ threshold = 0
    /\ eps = 1
    /\ min_samples = 2
    /\ use_isolated = FALSE
    /\ variance_percentile = 0
    /\ nan_cast = Unset
    /\ pc = "sizes_capacity"
    /\ capacity = NoCapacity
    /\ query = [eps |-> 0, min_samples |-> 0, result |-> NoCapacity]
    /\ edge_coords = <<>>
    /\ variance_threshold = 0
    /\ encoded_img = NoFile
    /\ chan_pos = 0
    /\ bit_index = 0
    /\ enc_result = Pending
    /\ enc_log = <<>>
    /\ output = NoFile
    /\ dec_coords = <<>>
    /\ dec_header = NoHeader
    /\ dec_result = Pending
    /\ stages = NoStages
    /\ unit = NoUnit

\* get_capacity, lines 444-483
SizesCapacity ==
    /\ pc = "sizes_capacity"
    /\ capacity' = CapacityRecord(sizes.total_pixels,
                                  EstimateHigh(sizes.high_variance_count,
                                               Min(SampleBound, sizes.total_pixels),
                                               sizes.total_pixels))
    /\ pc' = "sizes_encode"
    /\ UNCHANGED <<raster_state, sizes, enc_result>>

\* encode_message, lines 175-195
SizesEncode ==
    /\ pc = "sizes_encode"
    /\ enc_result' =
           IF TooLong(sizes.message_length) THEN Failed("message_too_long")
           ELSE IF CapacityShort(3 * sizes.total_pixels,
                                 Len(HeaderBits(sizes.message_length, variance_percentile))
                                     + 8 * sizes.message_length)
                THEN Failed("capacity_exceeded")
           ELSE Checked
    /\ pc' = "done"
    /\ UNCHANGED <<raster_state, sizes, capacity>>

SizesNext ==
    \/ SizesCapacity
    \/ SizesEncode

SizesSpec == SizesInit /\ [][SizesNext]_vars

(***************************************************************************)
(* The selection stages called one by one on the same raster and           *)
(* parameters: EdgeDetection.get_edge_pixels, then                         *)
(* EdgeClustering.cluster_edge_pixels, then                                *)
(* EdgeClustering.get_optimized_edge_pixels.  The parameters include the   *)
(* values the validation rejects, and the rasters include the shapes       *)
(* without an interior, on which only get_edge_pixels is followed.         *)
(***************************************************************************)
StageThresholds == {-1, 256} \cup Thresholds \cup {255}
StageEps == {0} \cup EpsValues
StageMinSamples == {1} \cup MinSamplesValues

ThinShapes == {sh \in (1 .. Width) \X (1 .. Height) : Thin(sh)}

stage_rest == <<image, message, threshold, eps, min_samples, use_isolated, variance_percentile,
                sizes, capacity, query, enc_locals, enc_result, output, dec_locals, dec_result,
                unit>>

StageInit ==
    /\ \/ /\ stages = NoStages
          /\ \E a \in 1 .. Levels, b \in 1 .. Levels, c \in 0 .. 1 : image = Ramp(a, b, c)
          /\ eps \in StageEps
          /\ min_samples \in StageMinSamples
          /\ use_isolated \in BOOLEAN
       \/ /\ \E sh \in ThinShapes : stages = [NoStages EXCEPT !.shape = sh]
          /\ image = Ramp(1, 1, 0)
          /\ eps = 1
          /\ min_samples = 2
          /\ use_isolated = FALSE
    /\ threshold \in StageThresholds
    /\ message = <<>>
    /\ variance_percentile = 0
    /\ nan_cast = Unset
    /\ pc = "stage_edges"
    /\ capacity = NoCapacity
    /\ query = [eps |-> 0, min_samples |-> 0, result |-> NoCapacity]
    /\ edge_coords = <<>>
    /\ variance_threshold = 0
    /\ encoded_img = NoFile
    /\ chan_pos = 0
    /\ bit_index = 0
    /\ enc_result = Pending
    /\ enc_log = <<>>
    /\ output = NoFile
    /\ dec_coords = <<>>
    /\ dec_header = NoHeader
    /\ dec_result = Pending
    /\ sizes = NoSizes
    /\ unit = NoUnit

\* EdgeDetection.get_edge_pixels(image_path, threshold), lines 65-88
StageEdges ==
    /\ pc = "stage_edges"
    /\ IF Thin(stages.shape)
       THEN \E nc \in NanCastValues :
               /\ nan_cast' = nc
               /\ stages' = [stages EXCEPT !.edges =
                                EdgeResult(ThinEdges(stages.shape[1], stages.shape[2], threshold, nc))]
               /\ pc' = "done"
       ELSE \E nc \in CastChoices(image) :
               /\ nan_cast' = nc
               /\ stages' = [stages EXCEPT !.edges = EdgeResult(get_edge_pixels(image, threshold, nc))]
               /\ pc' = "stage_cluster"
    /\ UNCHANGED stage_rest

\* EdgeClustering.cluster_edge_pixels(image_path, threshold, eps, min_samples)
StageCluster ==
    /\ pc = "stage_cluster"
    /\ \E nc \in CastChoices(image) :
          /\ nan_cast' = nc
          /\ stages' = [stages EXCEPT !.cluster =
                           cluster_edge_pixels(image, threshold, eps, min_samples, nc)]
    /\ pc' = "stage_select"
    /\ UNCHANGED stage_rest

\* EdgeClustering.get_optimized_edge_pixels(image_path, threshold, eps,
\* min_samples, use_isolated)
StageSelect ==
    /\ pc = "stage_select"
    /\ \E nc \in CastChoices(image) :
          /\ nan_cast' = nc
          /\ stages' = [stages EXCEPT !.selection =
                           get_optimized_edge_pixels(image, threshold, eps, min_samples,
                                                     use_isolated, nc)]
    /\ pc' = "done"
    /\ UNCHANGED stage_rest

StageNext ==
    \/ StageEdges
    \/ StageCluster
    \/ StageSelect

StageSpec == StageInit /\ [][StageNext]_vars

(***************************************************************************)
(* Single functions called on their own, on arguments that the calls made  *)
(* by encode_message and decode_message on a raster of this size do not    *)
(* reach: SteganographyEdgeAdaptive.calculate_adaptive_threshold on        *)
(* coordinate sequences longer than the sample bound,                      *)
(* adaptive_embed_bits followed by adaptive_extract_bits on one channel,   *)
(* and the clustering step of cluster_edge_pixels on the edge coordinates  *)
(* presented in another order than the scan order.                         *)
(***************************************************************************)
\* coordinates appended to a sequence
Tails == {<<>>, << <<0, 0>> >>, << <<1, 1>>, <<2, 2>>, <<3, 3>> >>}

\* coordinate sequences: the whole raster in (x, y) order, or its first two
\* coordinates, followed by a tail
UnitSequences == {LexOrder \o t : t \in Tails} \cup {Prefix(LexOrder, 2) \o t : t \in Tails}

\* the rasters that differ from img at most in the last pixel
Repainted(img) ==
    {img, [img EXCEPT ![<<Width - 1, Height - 1>>] = <<255, 255, 255>>]}

UnitPercentiles == {0, 50, 90}

\* arguments of adaptive_embed_bits: channel values, payload bit strings
\* with at least one bit remaining at bit_index, strengths, and thresholds
\* (scaled by 100, as HighVariance expects them)
ChannelValues == {0, 1, 2, 3, 128, 253, 254, 255}
BitStrings == UNION {[1 .. n -> {0, 1}] : n \in 1 .. MaxBits}
Strengths == {0, 1, 2}
StrengthThresholds == {0, 100, 200}

\* the orders in which a coordinate list is presented to the clustering step
Orders == {"reversed", "rotated", "sorted", "swapped"}

RECURSIVE Reverse(_)
Reverse(s) == IF s = <<>> THEN <<>> ELSE Reverse(Tail(s)) \o <<Head(s)>>

Reorder(order, s) ==
    IF Len(s) < 2 THEN s
    ELSE IF order = "reversed" THEN Reverse(s)
    ELSE IF order = "rotated" THEN Tail(s) \o <<Head(s)>>
    ELSE IF order = "sorted" THEN SortCoords(s)
    ELSE <<s[Len(s)]>> \o SubSeq(s, 2, Len(s) - 1) \o <<s[1]>>

inputs_but_unit == <<image, message, threshold, eps, min_samples, use_isolated,
                     variance_percentile, sizes, stages>>

unit_rest == <<image, message, threshold, eps, min_samples, use_isolated, variance_percentile,
               sizes, stages, nan_cast, capacity, query, enc_locals, enc_result, output,
               dec_locals, dec_result>>

UnitDefaults ==
    /\ message = <<>>
    /\ nan_cast = Unset
    /\ capacity = NoCapacity
    /\ query = [eps |-> 0, min_samples |-> 0, result |-> NoCapacity]
    /\ edge_coords = <<>>
    /\ variance_threshold = 0
    /\ encoded_img = NoFile
    /\ chan_pos = 0
    /\ bit_index = 0
    /\ enc_result = Pending
    /\ enc_log = <<>>
    /\ output = NoFile
    /\ dec_coords = <<>>
    /\ dec_header = NoHeader
    /\ dec_result = Pending
    /\ sizes = NoSizes
    /\ stages = NoStages

UnitInit ==
    /\ UnitDefaults
    /\ \/ /\ pc = "unit_threshold"
          /\ \E a \in 1 .. Levels, b \in 1 .. Levels, c \in 0 .. 1 : image = Ramp(a, b, c)
          /\ threshold = 0
          /\ eps = 1
          /\ min_samples = 2
          /\ use_isolated = FALSE
          /\ variance_percentile \in UnitPercentiles
          /\ \E coords \in UnitSequences, changed \in UnitSequences, raster \in Repainted(image) :
                 unit = [call |-> "calculate_adaptive_threshold", coords |-> coords,
                         changed |-> changed, raster |-> raster, result |-> <<>>]
       \/ /\ pc = "unit_embed"
          /\ image = Ramp(1, 1, 0)
          /\ threshold = 0
          /\ eps = 1
          /\ min_samples = 2
          /\ use_isolated = FALSE
          /\ variance_percentile = 0
          /\ \E v \in ChannelValues, bits \in BitStrings, st \in Strengths, th \in StrengthThresholds :
                 \E i \in 0 .. (Len(bits) - 1) :
                     unit = [call |-> "adaptive_embed_bits", pixel_value |-> v,
                             message_bits |-> bits, bit_index |-> i, strength |-> st,
                             threshold |-> th, embedded |-> <<>>, extracted |-> <<>>]
       \/ /\ pc = "unit_cluster"
          /\ \E a \in 1 .. Levels, b \in 1 .. Levels, c \in 0 .. 1 : image = Ramp(a, b, c)
          /\ threshold \in Thresholds
          /\ eps \in EpsValues
          /\ min_samples \in MinSamplesValues
          /\ use_isolated \in BOOLEAN
          /\ variance_percentile = 0
          /\ \E o \in Orders :
                 unit = [call |-> "cluster_edge_pixels", order |-> o, presented |-> <<>>,
                         scan |-> NotCalled, permuted |-> NotCalled]

\* calculate_adaptive_threshold(image, coords, percentile) and
\* calculate_adaptive_threshold(raster, changed, percentile)
UnitThreshold ==
    /\ pc = "unit_threshold"
    /\ unit' = [unit EXCEPT !.result =
                   <<calculate_adaptive_threshold(image, unit.coords, variance_percentile),
                     calculate_adaptive_threshold(unit.raster, unit.changed, variance_percentile)>>]
    /\ pc' = "done"
    /\ UNCHANGED unit_rest

\* adaptive_embed_bits on a channel value, then adaptive_extract_bits on the
\* value it returns, with the same strength and threshold
UnitEmbed ==
    /\ pc = "unit_embed"
    /\ \E r \in {adaptive_embed_bits(unit.pixel_value, unit.message_bits, unit.bit_index,
                                      unit.strength, unit.threshold)} :
          unit' = [unit EXCEPT !.embedded = r,
                               !.extracted = adaptive_extract_bits(r[1], unit.strength,
                                                                   unit.threshold)]
    /\ pc' = "done"
    /\ UNCHANGED unit_rest

\* lines 41-85 of cluster_edge_pixels on the coordinates get_edge_pixels
\* returns, and on the same coordinates presented in another order
UnitCluster ==
    /\ pc = "unit_cluster"
    /\ \E nc \in CastChoices(image) :
          /\ nan_cast' = nc
          /\ \E coords \in {get_edge_pixels(image, threshold, nc)} :
                 \E presented \in {Reorder(unit.order, coords)} :
                     unit' = [unit EXCEPT
                                 !.presented = presented,
                                 !.scan = ClusterCoords(image, coords, eps, min_samples),
                                 !.permuted = ClusterCoords(image, presented, eps, min_samples)]
    /\ pc' = "done"
    /\ UNCHANGED <<inputs_but_unit, capacity, query, enc_locals, enc_result, output, dec_locals,
                   dec_result>>

UnitNext ==
    \/ UnitThreshold
    \/ UnitEmbed
    \/ UnitCluster

UnitSpec == UnitInit /\ [][UnitNext]_vars

(***************************************************************************)
(* encode_message and decode_message as whole calls on a raster of w       *)
(* columns and h rows, and the session of one such raster: a uniform       *)
(* background with one square block of another intensity.                  *)
(***************************************************************************)
SceneShape == <<16, 16>>
BlockSide == 3
BlockOffsets == {2, 6, 11}
Backgrounds == {127, 128}
BlockLevels == {0, 255}
SceneBytes == {0, 65, 255}

InBlock(block, coord) ==
    /\ block[1] <= coord[1] /\ coord[1] < block[1] + BlockSide
    /\ block[2] <= coord[2] /\ coord[2] < block[2] + BlockSide

Scene(block, mid, level) ==
    [coord \in (0 .. SceneShape[1] - 1) \X (0 .. SceneShape[2] - 1) |->
        IF InBlock(block, coord) THEN <<level, level, level>> ELSE <<mid, mid, mid>>]

\* lines 221-252: the payload loop from cursor entry pos and bit bi on
RECURSIVE WritePayloadSized(_, _, _, _, _, _, _, _, _)
WritePayloadSized(img, enc, w, h, coords, data_bits, vt, pos, bi) ==
    IF bi >= Len(data_bits) THEN [complete |-> TRUE, img |-> enc]
    ELSE IF pos >= ChannelCount(coords) THEN [complete |-> FALSE, img |-> enc]
    ELSE LET ch == ChannelAt(coords, pos)
             r == adaptive_embed_bits(img[ch[1]][ch[2]], data_bits, bi,
                      calculate_edge_strength_sized(img, w, h, ch[1][1], ch[1][2]), vt)
         IN  WritePayloadSized(img,
                               IF r[2] > 0 THEN SetChannel(enc, ch[1], ch[2], r[1]) ELSE enc,
                               w, h, coords, data_bits, vt, pos + 1, r[3])

\* lines 174-258 of encode_message, after the selection
EncodeSelected(img, w, h, coords, msg, q) ==
    IF TooLong(Len(msg)) THEN [result |-> Failed("message_too_long"), file |-> NoFile]
    ELSE IF q < 0 \/ q > 100 THEN [result |-> Failed("exception"), file |-> NoFile]
    ELSE IF CapacityShort(ChannelCount(coords), Len(HeaderBits(Len(msg), q)) + Len(DataBits(msg)))
    THEN [result |-> Failed("capacity_exceeded"), file |-> NoFile]
    ELSE LET written(w_result) ==
                 IF w_result.complete THEN [result |-> Succeeded(<<>>), file |-> w_result.img]
                 ELSE [result |-> Failed("capacity_data"), file |-> NoFile]
             payload(vt) ==
                 written(WritePayloadSized(img, WriteHeader(img, coords, HeaderBits(Len(msg), q), 0),
                                           w, h, coords, DataBits(msg), vt, HeaderLen, 0))
         IN  payload(calculate_adaptive_threshold_sized(img, w, h, coords, q))

encode_message_sized(img, w, h, msg, t, e, m, iso, q, nc) ==
    LET selected(sel) ==
            IF ~sel.ok THEN [result |-> Failed(sel.err), file |-> NoFile, coords |-> <<>>]
            ELSE LET r == EncodeSelected(img, w, h, sel.coords, msg, q)
                 IN  [result |-> r.result, file |-> r.file, coords |-> sel.coords]
    IN  selected(get_optimized_edge_pixels_sized(img, w, h, t, e, m, iso, nc))

RECURSIVE ExtractStreamSized(_, _, _, _, _, _)
ExtractStreamSized(img, w, h, coords, vt, pos) ==
    IF pos >= ChannelCount(coords) THEN <<>>
    ELSE LET ch == ChannelAt(coords, pos)
         IN  adaptive_extract_bits(img[ch[1]][ch[2]],
                 calculate_edge_strength_sized(img, w, h, ch[1][1], ch[1][2]), vt)
                 \o ExtractStreamSized(img, w, h, coords, vt, pos + 1)

\* lines 327-403 of decode_message, after the header
DecodePayload(img, w, h, coords, header) ==
    LET regroup(stream) ==
            IF StreamShort(Len(stream), header.length * 8) THEN Failed("insufficient_data")
            ELSE Succeeded(RegroupBytes(Prefix(stream, header.length * 8)))
        extract(vt) == regroup(ExtractStreamSized(img, w, h, coords, vt, HeaderLen))
    IN  extract(calculate_adaptive_threshold_sized(img, w, h, coords, header.percentile))

\* lines 281-403 of decode_message
decode_message_sized(img, w, h, t, e, m, iso, nc) ==
    LET parsed(coords, header) ==
            [coords |-> coords, header |-> header,
             result |-> IF ~PercentileValid(header.percentile) THEN Failed("invalid_header")
                        ELSE IF header.length = 0 THEN Succeeded(<<>>)
                        ELSE DecodePayload(img, w, h, coords, header)]
        read(coords, header_bits) ==
            parsed(coords, [length |-> ParseBits(SubSeq(header_bits, 1, 16)),
                            percentile |-> ParseBits(SubSeq(header_bits, 17, HeaderLen))])
        selected(sel) ==
            IF ~sel.ok THEN [coords |-> <<>>, header |-> NoHeader, result |-> Failed(sel.err)]
            ELSE IF ChannelCount(sel.coords) < HeaderLen
            THEN [coords |-> sel.coords, header |-> NoHeader,
                  result |-> Failed("insufficient_header")]
            ELSE read(sel.coords, ReadHeaderBits(img, sel.coords, HeaderLen))
    IN  selected(get_optimized_edge_pixels_sized(img, w, h, t, e, m, iso, nc))

scene_rest == <<nan_cast, capacity, query, variance_threshold, encoded_img, chan_pos, bit_index,
                enc_log, sizes>>

SceneInit ==
    /\ \E x \in BlockOffsets, y \in BlockOffsets, mid \in Backgrounds, level \in BlockLevels :
          /\ image = Scene(<<x, y>>, mid, level)
          /\ unit = [call |-> "scene", block |-> <<x, y>>]
    /\ message \in {<<c>> : c \in SceneBytes}
    /\ threshold = 50
    /\ eps = 2
    /\ min_samples = 3
    /\ use_isolated = FALSE
    /\ variance_percentile = 90
    /\ nan_cast = Unset
    /\ pc = "scene_edges"
    /\ capacity = NoCapacity
    /\ query = [eps |-> 0, min_samples |-> 0, result |-> NoCapacity]
    /\ edge_coords = <<>>
    /\ variance_threshold = 0
    /\ encoded_img = NoFile
    /\ chan_pos = 0
    /\ bit_index = 0
    /\ enc_result = Pending
    /\ enc_log = <<>>
    /\ output = NoFile
    /\ dec_coords = <<>>
    /\ dec_header = NoHeader
    /\ dec_result = Pending
    /\ sizes = NoSizes
    /\ stages = [NoStages EXCEPT !.shape = SceneShape]

\* the raster is not flat, so the cast of NaN plays no part
SceneEdges ==
    /\ pc = "scene_edges"
    /\ stages' = [stages EXCEPT !.edges =
                     [ok |-> TRUE, err |-> "",
                      coords |-> get_edge_pixels_sized(image, stages.shape[1], stages.shape[2],
                                                       threshold, 0)]]
    /\ pc' = "scene_cluster"
    /\ UNCHANGED <<image, message, threshold, eps, min_samples, use_isolated, variance_percentile,
                   unit, scene_rest, edge_coords, enc_result, output, dec_coords, dec_header,
                   dec_result>>

SceneCluster ==
    /\ pc = "scene_cluster"
    /\ stages' = [stages EXCEPT !.cluster =
                     cluster_edge_pixels_sized(image, stages.shape[1], stages.shape[2],
                                               threshold, eps, min_samples, 0)]
    /\ pc' = "scene_encode"
    /\ UNCHANGED <<image, message, threshold, eps, min_samples, use_isolated, variance_percentile,
                   unit, scene_rest, edge_coords, enc_result, output, dec_coords, dec_header,
                   dec_result>>

SceneEncode ==
    /\ pc = "scene_encode"
    /\ \E r \in {encode_message_sized(image, stages.shape[1], stages.shape[2], message, threshold,
                                       eps, min_samples, use_isolated, variance_percentile, 0)} :
          /\ edge_coords' = r.coords
          /\ enc_result' = r.result
          /\ output' = r.file
          /\ pc' = IF r.result.status = "ok" THEN "scene_decode" ELSE "done"
    /\ UNCHANGED <<image, message, threshold, eps, min_samples, use_isolated, variance_percentile,
                   unit, scene_rest, stages, dec_coords, dec_header, dec_result>>

SceneDecode ==
    /\ pc = "scene_decode"
    /\ \E r \in {decode_message_sized(output, stages.shape[1], stages.shape[2], threshold, eps,
                                       min_samples, use_isolated, 0)} :
          /\ dec_coords' = r.coords
          /\ dec_header' = r.header
          /\ dec_result' = r.result
    /\ pc' = "done"
    /\ UNCHANGED <<image, message, threshold, eps, min_samples, use_isolated, variance_percentile,
                   unit, scene_rest, stages, edge_coords, enc_result, output>>

SceneNext ==
    \/ SceneEdges
    \/ SceneCluster
    \/ SceneEncode
    \/ SceneDecode

SceneSpec == SceneInit /\ [][SceneNext]_vars

(***************************************************************************)
(* Properties.                                                             *)
(***************************************************************************)
EncDone == enc_result.status # "pending"

\* len(message): of the message in the state, or of the sizes where only
\* the sizes are followed
MessageLength == IF sizes = NoSizes THEN Len(message) ELSE sizes.message_length

EncOK == enc_result.status = "ok"
DecDone == dec_result.status # "pending"

\* C1: a message no longer than the capacity reported for the raster and
\* the parameters is encoded successfully, and decoding the stego raster
\* with the same parameters succeeds with exactly that message.
RoundTrip ==
    (capacity.ok /\ Len(message) <= capacity.max_chars) =>
        /\ EncDone => EncOK
        /\ (EncOK /\ pc \in {"query", "done"}) => dec_result = Succeeded(message)

\* C2: after a successful encode, the coordinate sequence the decoder
\* selects from the stego raster equals, element for element, the sequence
\* the encoder selected from the input raster.
CursorAgreement ==
    (EncOK /\ pc # "dec_header") => dec_coords = edge_coords

\* the decoder's 1-or-2-bit decision for a cursor entry: variance in the
\* stego raster against the threshold recomputed from the stego raster
DecoderDecision(coord) ==
    IF HighVariance(calculate_edge_strength(output, coord[1], coord[2]),
                    calculate_adaptive_threshold(output, dec_coords, dec_header.percentile))
    THEN 2 ELSE 1

\* C3: after a successful encode, for every cursor entry the encoder wrote
\* payload bits into, the decoder's decision selects the same number of
\* bits as the encoder's decision made from the input raster.  Stated for
\* the runs in which the decoder has reproduced the encoder's cursor and
\* read back the encoder's percentile, where the entries correspond.
DecisionAgreement ==
    (/\ EncOK
     /\ pc = "dec_payload"
     /\ dec_coords = edge_coords
     /\ dec_header.percentile = variance_percentile) =>
        \A i \in DOMAIN enc_log : DecoderDecision(enc_log[i].coord) = enc_log[i].decision

\* C5: after a successful encode of a message of length L with percentile
\* p, the 24 header bits read from the stego raster's channel cursor decode
\* to exactly L and p.
HeaderIntegrity ==
    (EncOK /\ pc # "dec_header") =>
        dec_header = [length |-> Len(message), percentile |-> variance_percentile]

\* C6: when the selected coordinate sequence can hold the 24-bit header,
\* encoding the empty message succeeds and decoding the result succeeds
\* with the empty message.
EmptyPayload ==
    (Len(message) = 0 /\ ChannelCount(edge_coords) >= HeaderLen) =>
        /\ EncDone => EncOK
        /\ (EncOK /\ pc \in {"query", "done"}) => dec_result = Succeeded(<<>>)

\* C7: when get_capacity succeeds with max_chars = C >= 0, encoding a
\* message of exactly C characters with the same parameters succeeds.
BoundaryAtCapacity ==
    (capacity.ok /\ capacity.max_chars >= 0 /\ Len(message) = capacity.max_chars /\ EncDone)
        => EncOK

\* C8 as stated: when get_capacity reports max_chars = C, encoding a message
\* of C+1 characters fails with the capacity-exceeded error and writes no
\* output.
AboveCapacity ==
    (capacity.ok /\ MessageLength = capacity.max_chars + 1 /\ EncDone)
        => (enc_result = Failed("capacity_exceeded") /\ output = NoFile)

\* C8 amended: when get_capacity reports max_chars = C, encoding a message of
\* C+1 characters writes no output and fails with the capacity-exceeded
\* error if C+1 is at most 65535, with the message-too-long error otherwise.
AboveCapacityWithinLimit ==
    (capacity.ok /\ MessageLength = capacity.max_chars + 1 /\ EncDone) =>
        /\ output = NoFile
        /\ MessageLength <= MaxMessageLength => enc_result = Failed("capacity_exceeded")
        /\ MessageLength > MaxMessageLength => enc_result = Failed("message_too_long")

AboveCapacityWitness ==
    /\ capacity.ok
    /\ capacity.max_chars >= 1
    /\ MessageLength = capacity.max_chars + 1
    /\ MessageLength <= MaxMessageLength
    /\ enc_result = Failed("capacity_exceeded")
    /\ output = NoFile

\* the two capacity results of a run, ordered: <<stricter, looser>> when the
\* query's parameters are comparable with the session's
QueryStricter == query.eps <= eps /\ query.min_samples >= min_samples
QueryLooser == query.eps >= eps /\ query.min_samples <= min_samples
MaxChars(r) == IF r.ok THEN r.max_chars ELSE 0
EdgePixels(r) == IF r.ok THEN r.edge_pixels ELSE 0

\* C9 as stated: for a fixed raster, edge threshold, subset flag and
\* percentile, max_chars (zero on failure) does not increase when eps is
\* decreased or min_samples is increased.
CapacityMonotone ==
    pc = "done" =>
        /\ QueryStricter => MaxChars(query.result) <= MaxChars(capacity)
        /\ QueryLooser => MaxChars(capacity) <= MaxChars(query.result)

\* C9 amended: with use_isolated false and valid clustering parameters
\* (eps > 0, min_samples >= 2) on both sides, the edge_pixels count of
\* get_capacity (zero on failure) does not increase when eps is decreased
\* or min_samples is increased.
SelectedCountMonotone ==
    (pc = "done" /\ ~use_isolated /\ query.eps > 0 /\ query.min_samples >= 2) =>
        /\ QueryStricter => EdgePixels(query.result) <= EdgePixels(capacity)
        /\ QueryLooser => EdgePixels(capacity) <= EdgePixels(query.result)

SelectedCountMonotoneWitness ==
    /\ pc = "done"
    /\ ~use_isolated
    /\ query.eps > 0
    /\ query.min_samples >= 2
    /\ QueryStricter
    /\ query.result.ok
    /\ query.result.edge_pixels < capacity.edge_pixels

\* C10: a failed encode never saves the stego raster; the raster is saved
\* only after the 24 header bits and all 8*L payload bits have been written
\* into the private copy.
NoPartialOutput ==
    /\ enc_result.status = "failed" => output = NoFile
    /\ output # NoFile =>
          /\ EncOK
          /\ output = encoded_img
          /\ chan_pos >= HeaderLen
          /\ ReadHeaderBits(output, edge_coords, HeaderLen)
                 = HeaderBits(Len(message), variance_percentile)
          /\ bit_index = 8 * Len(message)
          /\ SumSeq([i \in DOMAIN enc_log |-> enc_log[i].bits]) = 8 * Len(message)

NoPartialOutputWitness ==
    /\ enc_result = Failed("capacity_exceeded")
    /\ output = NoFile
    /\ pc = "done"

\* C11: capacity-exceeded is reported before any channel of the copy is
\* modified (no copy exists yet), and once the pre-write check has passed
\* neither loop exhausts the channel cursor: the mid-write capacity failures
\* never occur, every payload iteration embeds at least one bit, a payload
\* bit still to write always has a channel left, and the encode ends in
\* success with bit_index equal to the number of payload bits.
CapacityDecidedFirst ==
    /\ enc_result.err = "capacity_exceeded" =>
          (encoded_img = NoFile /\ enc_log = <<>> /\ output = NoFile)
    /\ enc_result.err \notin {"capacity_header", "capacity_data"}
    /\ encoded_img # NoFile =>
          /\ chan_pos <= ChannelCount(edge_coords)
          /\ bit_index <= Len(DataBits(message))
          /\ (pc = "enc_payload" /\ bit_index < Len(DataBits(message)))
                 => chan_pos < ChannelCount(edge_coords)
          /\ \A i \in DOMAIN enc_log : enc_log[i].bits >= 1
          /\ EncDone => (EncOK /\ bit_index = Len(DataBits(message)))

CapacityDecidedFirstWitness ==
    /\ EncOK
    /\ Len(message) >= 1
    /\ chan_pos > HeaderLen
    /\ bit_index = Len(DataBits(message))
    /\ ChannelCount(edge_coords) < HeaderLen + 2 * Len(DataBits(message))

\* C12: whenever the 8 percentile bits of the header decode to a value
\* outside 0..100, decode_message returns the invalid-header failure and no
\* message, whatever the decoded length is.
InvalidHeaderRejected ==
    (dec_header # NoHeader /\ dec_header.percentile \notin 0 .. 100) =>
        dec_result = Failed("invalid_header")

InvalidHeaderRejectedWitness ==
    /\ dec_header.percentile > 100
    /\ dec_header.length >= 1
    /\ dec_result = Failed("invalid_header")

\* the bits the decoder's cursor yields after the header
DecodedStream ==
    ExtractStream(output, dec_coords,
                  calculate_adaptive_threshold(output, dec_coords, dec_header.percentile),
                  HeaderLen)

\* C13: decode_message fails when the cursor of the stego raster yields
\* fewer than 24 header bits, or, the header being valid with length L,
\* fewer than 8*L payload bits after it; every successful decode with
\* decoded length L returns a message of exactly L characters.
NoSilentTruncation ==
    /\ (DecDone /\ dec_coords # <<>> /\ ChannelCount(dec_coords) < HeaderLen) =>
           dec_result = Failed("insufficient_header")
    /\ (/\ DecDone
        /\ dec_header # NoHeader
        /\ dec_header.percentile \in 0 .. 100
        /\ Len(DecodedStream) < 8 * dec_header.length) =>
           dec_result = Failed("insufficient_data")
    /\ dec_result.status = "ok" =>
           /\ dec_header # NoHeader
           /\ Len(dec_result.message) = dec_header.length

NoSilentTruncationWitness ==
    /\ dec_header.length >= 1
    /\ dec_header.percentile \in 0 .. 100
    /\ Len(DecodedStream) < 8 * dec_header.length
    /\ dec_result = Failed("insufficient_data")

\* C14: encode_message fails without writing output for every message longer
\* than 65535 characters; a length from 0 to 65535 is never refused as too
\* long, is accepted whenever the selection has a channel for every header
\* and payload bit, and is written to the 16-bit header field without loss.
LengthLimit ==
    EncDone =>
        /\ MessageLength > MaxMessageLength =>
               (enc_result = Failed("message_too_long") /\ output = NoFile)
        /\ MessageLength <= MaxMessageLength =>
               /\ enc_result.err # "message_too_long"
               /\ Len(Format(MessageLength, 16)) = 16
               /\ ParseBits(Format(MessageLength, 16)) = MessageLength
               /\ (sizes # NoSizes /\ 3 * sizes.total_pixels >= HeaderLen + 8 * MessageLength)
                      => enc_result = Checked

LengthLimitWitness ==
    /\ sizes.message_length = MaxMessageLength
    /\ enc_result = Checked

\* C15: encode_message called with a variance percentile outside 0..100
\* fails and writes no output, and no stego raster is ever produced whose
\* header the decoder rejects as invalid.
PercentileValidated ==
    /\ (EncDone /\ variance_percentile \notin 0 .. 100) =>
           (enc_result.status = "failed" /\ output = NoFile)
    /\ EncOK => dec_result.err # "invalid_header"

InvalidClusterParameters == eps <= 0 \/ min_samples < 2 \/ threshold < 0 \/ threshold > 255

\* C16: cluster_edge_pixels returns the invalid-parameters failure when
\* eps <= 0, min_samples < 2 or the edge threshold is outside 0..255,
\* whatever edge detection yields for the raster (an empty list included);
\* with valid parameters it returns the empty-input failure when edge
\* detection yields no coordinates, and succeeds otherwise.
ClusterValidation ==
    stages.cluster # NotCalled =>
        /\ InvalidClusterParameters =>
               stages.cluster = ClusterFailure("invalid_parameters")
        /\ (~InvalidClusterParameters /\ stages.edges.coords = <<>>) =>
               stages.cluster = ClusterFailure("no_edges")
        /\ (~InvalidClusterParameters /\ stages.edges.coords # <<>>) =>
               (stages.cluster.ok /\ stages.cluster.all_coords = stages.edges.coords)

ClusterValidationWitness ==
    /\ eps <= 0
    /\ stages.edges.ok
    /\ stages.edges.coords # <<>>
    /\ stages.cluster = ClusterFailure("invalid_parameters")

\* C17: get_edge_pixels fails with an invalid-input error for every raster
\* with width < 3 or height < 3, and returns success, with an empty list when
\* no normalised magnitude exceeds the threshold, for a raster of valid
\* size.
EdgeMapValidation ==
    stages.edges # NotCalled =>
        /\ Thin(stages.shape) =>
               (~stages.edges.ok /\ stages.edges.err = "invalid_input")
        /\ ~Thin(stages.shape) => stages.edges.ok
        /\ (~Thin(stages.shape) /\ ~Flat(image) /\ threshold >= 255) =>
               stages.edges = EdgeResult(<<>>)

Ascending(coords) ==
    \A i \in 1 .. (Len(coords) - 1) : CoordLess(coords[i], coords[i + 1])

\* C19: in every successful clustering result clustered_coords and
\* noise_coords are disjoint, together they are exactly the edge coordinate
\* list, clustered_coords holds exactly the coordinates whose label is not
\* -1, each list is strictly ascending in (x, y) order, and
\* get_optimized_edge_pixels returns noise_coords when use_isolated is true
\* and clustered_coords otherwise.
CanonicalSelection ==
    /\ stages.cluster.ok =>
          /\ Range(stages.cluster.clustered_coords) \cap Range(stages.cluster.noise_coords) = {}
          /\ Range(stages.cluster.clustered_coords) \cup Range(stages.cluster.noise_coords)
                 = Range(stages.cluster.all_coords)
          /\ Len(stages.cluster.clustered_coords) + Len(stages.cluster.noise_coords)
                 = Len(stages.cluster.all_coords)
          /\ Range(stages.cluster.clustered_coords)
                 = {stages.cluster.all_coords[i] :
                        i \in {k \in DOMAIN stages.cluster.labels : stages.cluster.labels[k] # -1}}
          /\ Ascending(stages.cluster.clustered_coords)
          /\ Ascending(stages.cluster.noise_coords)
    /\ stages.selection.ok =>
          stages.selection.coords = IF use_isolated THEN stages.cluster.noise_coords
                                    ELSE stages.cluster.clustered_coords

CanonicalSelectionWitness ==
    /\ stages.cluster.ok
    /\ Len(stages.cluster.clustered_coords) >= 2
    /\ Len(stages.cluster.noise_coords) >= 2
    /\ stages.selection.ok

\* the group get_optimized_edge_pixels is asked for
SelectedGroup ==
    IF use_isolated THEN stages.cluster.noise_coords ELSE stages.cluster.clustered_coords

\* C20: get_optimized_edge_pixels returns the no-capacity failure whenever
\* the selected group is empty, even if the other group is not; on success
\* the returned sequence is never empty.
EmptySelection ==
    stages.selection # NotCalled =>
        /\ (stages.cluster.ok /\ SelectedGroup = <<>>) =>
               stages.selection = Failure("no_capacity")
        /\ stages.selection.ok => stages.selection.coords # <<>>

EmptySelectionWitness ==
    /\ stages.cluster.ok
    /\ SelectedGroup = <<>>
    /\ stages.cluster.all_coords # <<>>
    /\ stages.selection = Failure("no_capacity")

\* the failures that report that the raster offers no pixel to write into
NoCapacityErrors == {"no_edges", "no_capacity"}

\* all pixels of the raster have the same value
Uniform(img) == \A p \in Coords : img[p] = img[<<0, 0>>]

\* C18: for a raster in which all pixels have the same value, get_capacity,
\* encode_message and decode_message each return a no-capacity failure,
\* before any header or payload bit is written or read and before any
\* output is saved.
FlatNoCapacity ==
    Uniform(image) =>
        /\ capacity # NoCapacity =>
               (~capacity.ok /\ capacity.err \in NoCapacityErrors)
        /\ EncDone =>
               /\ enc_result.status = "failed"
               /\ enc_result.err \in NoCapacityErrors
               /\ encoded_img = NoFile
               /\ output = NoFile
        /\ DecDone =>
               /\ dec_result.status = "failed"
               /\ dec_result.err \in NoCapacityErrors
               /\ dec_header = NoHeader

\* the payload bits the entries before entry i of the payload loop consumed
ConsumedBefore(i) == SumSeq([k \in 1 .. (i - 1) |-> enc_log[k].bits])

\* C22: every cursor entry visited after the header while payload bits
\* remain consumes exactly 2 payload bits and has its two least-significant
\* bits overwritten with them when the pixel's variance reaches the
\* threshold, and otherwise consumes exactly 1 bit and has only its
\* least-significant bit overwritten; the bits are taken in message order,
\* most significant first, and the loop stops exactly when all 8*L bits are
\* consumed.
PayloadAllocation ==
    /\ \A i \in DOMAIN enc_log :
          LET e == enc_log[i]
              at == ConsumedBefore(i)
              old == image[e.coord][e.channel]
              new == encoded_img[e.coord][e.channel]
              data_bits == DataBits(message)
          IN  /\ e = [coord |-> ChannelAt(edge_coords, HeaderLen + i - 1)[1],
                      channel |-> ChannelAt(edge_coords, HeaderLen + i - 1)[2],
                      decision |-> e.decision, bits |-> e.bits]
              /\ e.decision = 2 =>
                     /\ e.bits = 2
                     /\ new = (old - (old % 4)) + 2 * data_bits[at + 1] + data_bits[at + 2]
              /\ e.decision = 1 =>
                     /\ e.bits = 1
                     /\ new = (old - (old % 2)) + data_bits[at + 1]
    /\ EncOK => ConsumedBefore(Len(enc_log) + 1) = 8 * Len(message)

\* the 1-or-2-bit decision for a coordinate, made from the raster img
DecisionFrom(img, coord) ==
    IF HighVariance(calculate_edge_strength(img, coord[1], coord[2]), variance_threshold)
    THEN 2 ELSE 1

\* what the encoder has computed agrees with the input image alone
ComputedFromInput ==
    encoded_img # NoFile =>
        /\ variance_threshold = calculate_adaptive_threshold(image, edge_coords, variance_percentile)
        /\ \A i \in DOMAIN enc_log :
              /\ enc_log[i].decision = DecisionFrom(image, enc_log[i].coord)
              /\ encoded_img[enc_log[i].coord][enc_log[i].channel] \div 4
                     = image[enc_log[i].coord][enc_log[i].channel] \div 4

\* C23: throughout encode_message the input raster is never modified, and
\* the variance threshold, every per-channel decision and the base of every
\* embedded value are those computed from the input raster, whatever has
\* been written into the copy.
ReadsOnlyInput == []ComputedFromInput /\ [][image' = image]_vars

\* a successful encode in which a decision made from the written copy would
\* have differed from the one made from the input
ReadsOnlyInputWitness ==
    /\ EncOK
    /\ \E i \in DOMAIN enc_log :
          DecisionFrom(encoded_img, enc_log[i].coord) # enc_log[i].decision

\* the cursor entries the encoder has consumed: <<coordinate, channel>>
ConsumedChannels == {ChannelAt(edge_coords, pos) : pos \in 0 .. (chan_pos - 1)}

\* C24: in every stego raster a successful encode produces, the first 24
\* cursor channels differ from the input at most in bit 0, each later
\* channel the payload consumed differs at most in bits 0 and 1 (bit 0 only
\* when 1 bit was embedded), every channel the cursor did not consume equals
\* the input, and all channel values are in 0..255.
EncodeFrame ==
    output # NoFile =>
        /\ \A pos \in 0 .. (HeaderLen - 1) :
              LET ch == ChannelAt(edge_coords, pos)
              IN  output[ch[1]][ch[2]] \div 2 = image[ch[1]][ch[2]] \div 2
        /\ \A i \in DOMAIN enc_log :
              LET e == enc_log[i]
              IN  /\ ChannelAt(edge_coords, HeaderLen + i - 1) = <<e.coord, e.channel>>
                  /\ output[e.coord][e.channel] \div 4 = image[e.coord][e.channel] \div 4
                  /\ e.bits = 1 =>
                         output[e.coord][e.channel] \div 2 = image[e.coord][e.channel] \div 2
        /\ chan_pos = HeaderLen + Len(enc_log)
        /\ \A p \in Coords, c \in 1 .. 3 :
              /\ <<p, c>> \notin ConsumedChannels => output[p][c] = image[p][c]
              /\ output[p][c] \in 0 .. 255

\* a stego raster with a header channel, a 2-bit payload channel and a
\* 1-bit payload channel changed, and a selected pixel left partly unconsumed
EncodeFrameWitness ==
    /\ output # NoFile
    /\ \E pos \in 0 .. (HeaderLen - 1) :
          LET ch == ChannelAt(edge_coords, pos)
          IN  output[ch[1]][ch[2]] # image[ch[1]][ch[2]]
    /\ \E i \in DOMAIN enc_log :
          /\ enc_log[i].bits = 2
          /\ output[enc_log[i].coord][enc_log[i].channel] \div 2
                 # image[enc_log[i].coord][enc_log[i].channel] \div 2
    /\ \E i \in DOMAIN enc_log :
          /\ enc_log[i].bits = 1
          /\ output[enc_log[i].coord][enc_log[i].channel]
                 # image[enc_log[i].coord][enc_log[i].channel]
    /\ chan_pos < ChannelCount(edge_coords)

\* (x, y) comes before (u, v) in row-major scan order
ScanBefore(p, q) == p[2] < q[2] \/ (p[2] = q[2] /\ p[1] < q[1])

Border(p) == p[1] = 0 \/ p[1] = Width - 1 \/ p[2] = 0 \/ p[2] = Height - 1

\* the coordinates whose normalised gradient magnitude exceeds t
AboveThreshold(img, t) ==
    LET edge_magnitude == apply_sobel(GrayArray(img))
        mx == MaxOf(Range(edge_magnitude))
    IN  {p \in Coords : mx # 0 /\ IsEdge(edge_magnitude[Index(p[1], p[2])], mx, t, Unset)}

\* C25: for every raster (of a size with an interior) and every threshold in
\* 0..255, get_edge_pixels returns exactly the coordinates whose normalised
\* gradient magnitude is strictly greater than the threshold, in row-major
\* scan order without duplicates, and never a coordinate on the raster
\* border.
EdgeMapShape ==
    (stages.edges # NotCalled /\ ~Thin(stages.shape) /\ threshold \in 0 .. 255) =>
        /\ stages.edges.ok
        /\ \A i, j \in DOMAIN stages.edges.coords :
              i < j => ScanBefore(stages.edges.coords[i], stages.edges.coords[j])
        /\ \A i \in DOMAIN stages.edges.coords : ~Border(stages.edges.coords[i])
        /\ Range(stages.edges.coords) = AboveThreshold(image, threshold)

\* the feature vectors (x, y, gray) of the coordinates edge detection returned
StageFeatures == Features(image, stages.edges.coords) \o <<>>

\* nbr[i] is the set of points within eps of point i in the standardised
\* feature space: point i has at least min_samples of them, itself included
IsCore(nbr, i) == Cardinality(nbr[i]) >= min_samples

IsNoise(nbr, i) == ~IsCore(nbr, i) /\ ~\E j \in nbr[i] : IsCore(nbr, j)

Neighbourhood(p) ==
    {q \in Coords : q[1] - p[1] \in -1 .. 1 /\ q[2] - p[2] \in -1 .. 1}

\* the first SampleBound coordinates of the two sequences are the same, and
\* the two rasters have the same grayscale values on their neighbourhoods
SameSample ==
    /\ Prefix(unit.coords, SampleBound) = Prefix(unit.changed, SampleBound)
    /\ \A p \in Range(Prefix(unit.coords, SampleBound)) :
          \A q \in Neighbourhood(p) : Gray(unit.raster[q]) = Gray(image[q])

\* C27: calculate_adaptive_threshold depends only on the first SampleBound
\* coordinates of the sequence (the whole sequence if shorter) and on the
\* grayscale 3x3 neighbourhoods, clamped at the border, of those
\* coordinates: changing, adding or removing coordinates beyond that prefix,
\* or pixels outside those neighbourhoods, never changes the threshold.
ThresholdSampling ==
    (unit.call = "calculate_adaptive_threshold" /\ unit.result # <<>> /\ SameSample) =>
        unit.result[1] = unit.result[2]

\* two sequences longer than the sample bound that differ beyond it
ThresholdSamplingWitness ==
    /\ unit.call = "calculate_adaptive_threshold"
    /\ unit.result # <<>>
    /\ SameSample
    /\ Len(unit.coords) > SampleBound
    /\ Len(unit.changed) > Len(unit.coords)
    /\ Prefix(unit.changed, Len(unit.coords)) # unit.coords
    /\ unit.result[1] = unit.result[2]

\* C28: for every channel value, strength, threshold and payload bit string
\* with at least one bit remaining at the index, the string
\* adaptive_extract_bits returns on the value adaptive_embed_bits produced
\* begins with exactly the bits adaptive_embed_bits consumed, in the same
\* order; also when the strength reaches the threshold and only one payload
\* bit remains.
EmbedExtractRoundTrip ==
    (unit.call = "adaptive_embed_bits" /\ unit.embedded # <<>>) =>
        LET consumed == unit.embedded[2]
        IN  /\ consumed >= 1
            /\ unit.embedded[3] = unit.bit_index + consumed
            /\ Len(unit.extracted) >= consumed
            /\ SubSeq(unit.extracted, 1, consumed)
                   = SubSeq(unit.message_bits, unit.bit_index + 1, unit.bit_index + consumed)

PayloadBitLength ==
    encoded_img # NoFile =>
        \E data_bits \in {DataBits(message)},
           header_bits \in {HeaderBits(Len(message), variance_percentile)} :
            /\ Len(data_bits) = 8 * Len(message)
            /\ \A k \in DOMAIN message :
                  /\ message[k] \in 0 .. 255
                  /\ SumSeq([j \in 1 .. 8 |-> data_bits[8 * (k - 1) + j] * 2 ^ (8 - j)]) = message[k]
            /\ Len(header_bits) = HeaderLen
            /\ ParseBits(SubSeq(header_bits, 1, 16)) = Len(message)
            /\ bit_index <= Len(data_bits)
            /\ EncOK => (chan_pos >= HeaderLen /\ bit_index = 8 * Len(message))

\* a saved stego raster of a character whose binary form needs leading zeros
PayloadBitLengthWitness ==
    /\ EncOK
    /\ output # NoFile
    /\ Len(message) >= 1
    /\ message[1] < 128
    /\ bit_index = 8 * Len(message)


\* C21: on a 16x16 mid-gray raster with one 3x3 block of another intensity,
\* with threshold 50, eps 2 and min_samples 3, every detected edge coordinate
\* lies within one pixel of the block, the clustering puts the coordinates
\* in exactly one cluster with no noise, and decoding the encoded raster
\* returns the one-byte message that was encoded
NearBlock(block, coord) ==
    /\ block[1] - 1 <= coord[1] /\ coord[1] <= block[1] + BlockSide
    /\ block[2] - 1 <= coord[2] /\ coord[2] <= block[2] + BlockSide

SceneScenario ==
    (unit.call = "scene" /\ pc = "done") =>
        /\ stages.edges.coords # <<>>
        /\ \A i \in DOMAIN stages.edges.coords : NearBlock(unit.block, stages.edges.coords[i])
        /\ stages.cluster.ok
        /\ stages.cluster.n_clusters = 1
        /\ stages.cluster.noise_coords = <<>>
        /\ enc_result.status = "ok"
        /\ dec_result = Succeeded(message)

====
